---- MODULE Spec2Model ----
(***************************************************************************)
(* A model of the Piet interpreter: the codel grid and its block index,    *)
(* the direction registers, the command table and the traversal engine of  *)
(* `run` (src/src/lib.rs).                                                 *)
(*                                                                         *)
(* Coordinates are the code's 0-based (row, column) pairs <<i, j>>; the    *)
(* grid `m` is a sequence of rows, so the codel at <<i, j>> is             *)
(* m[i + 1][j + 1].  Option<T> is <<>> (None) or <<x>> (Some(x)).  The     *)
(* stack is a sequence whose last element is the top, as Vec::push/pop.    *)
(***************************************************************************)
EXTENDS Integers, Sequences, FiniteSets, TLC

VARIABLES
    img,        \* Image: [m, block_map], read-only after construction
    max_iter,   \* args.max_iter : Option<usize>
    input,      \* the bytes waiting on the process's standard input
    ip,         \* Interpreter: [cur, stack, dp, cc, stdin]
    output,     \* the bytes written to standard output so far
    num_iter,   \* run: num_iter
    i,          \* run: index of the current try of the colored regime
    visited,    \* run: (position, DP) pairs of the current slide episode
    pc,         \* run: "start", "loop", "try", "white", or how it ended
    executed,   \* history: the commands executed so far, and where
    call,       \* a call of a pure function: its name and arguments
    ret         \* None, or Some(the value the call returned)

vars == <<img, max_iter, input, ip, output, num_iter, i, visited, pc, executed, call, ret>>

(***************************************************************************)
(* Bounds of the model.                                                    *)
(***************************************************************************)
\* --max-iter values 0..MaxIterArg are tried, and no cap at all.
MaxIterArg == 2
\* A run without a cap is followed for StepBound counted iterations.
StepBound == 12
\* isize is modelled on ISIZE_BITS bits (two's complement), not on 64.
ISIZE_BITS == 24

None == <<>>
Some(x) == <<x>>

(***************************************************************************)
(* Codel (src/src/codel.rs)                                                *)
(***************************************************************************)
Colored == {"LightRed", "LightYellow", "LightGreen", "LightCyan", "LightBlue", "LightMagenta",
            "Red", "Yellow", "Green", "Cyan", "Blue", "Magenta",
            "DarkRed", "DarkYellow", "DarkGreen", "DarkCyan", "DarkBlue", "DarkMagenta"}

Codel == Colored \cup {"White", "Black"}

\* is_black testing the other colourless codel
is_black_white(c) == c = "White"

is_black(c) == c = "Black"

is_white(c) == c = "White"

\* -1 stands for the unreachable!() arm (White, Black)
get_hue(c) ==
    CASE c \in {"LightRed", "Red", "DarkRed"} -> 0
      [] c \in {"LightYellow", "Yellow", "DarkYellow"} -> 1
      [] c \in {"LightGreen", "Green", "DarkGreen"} -> 2
      [] c \in {"LightCyan", "Cyan", "DarkCyan"} -> 3
      [] c \in {"LightBlue", "Blue", "DarkBlue"} -> 4
      [] c \in {"LightMagenta", "Magenta", "DarkMagenta"} -> 5
      [] OTHER -> -1

get_lightness(c) ==
    CASE c \in {"LightRed", "LightYellow", "LightGreen", "LightCyan", "LightBlue", "LightMagenta"} -> 0
      [] c \in {"Red", "Yellow", "Green", "Cyan", "Blue", "Magenta"} -> 1
      [] c \in {"DarkRed", "DarkYellow", "DarkGreen", "DarkCyan", "DarkBlue", "DarkMagenta"} -> 2
      [] OTHER -> -1

\* get_hue_difference with the operands exchanged
get_hue_difference_reversed(from, to) == (get_hue(from) + 6 - get_hue(to)) % 6

get_hue_difference(from, to) == (get_hue(to) + 6 - get_hue(from)) % 6

\* get_lightness_difference without the reduction modulo 3
get_lightness_difference_unreduced(from, to) == get_lightness(to) + 3 - get_lightness(from)

get_lightness_difference(from, to) == (get_lightness(to) + 3 - get_lightness(from)) % 3

\* the palette entries of Codel::new: <<r, g, b>> and the codel it gives
Codel_new_arms ==
    << <<(<<255, 192, 192>>), "LightRed">>, <<(<<255, 255, 192>>), "LightYellow">>,
       <<(<<192, 255, 192>>), "LightGreen">>, <<(<<192, 255, 255>>), "LightCyan">>,
       <<(<<192, 192, 255>>), "LightBlue">>, <<(<<255, 192, 255>>), "LightMagenta">>,
       <<(<<255, 0, 0>>), "Red">>, <<(<<255, 255, 0>>), "Yellow">>,
       <<(<<0, 255, 0>>), "Green">>, <<(<<0, 255, 255>>), "Cyan">>,
       <<(<<0, 0, 255>>), "Blue">>, <<(<<255, 0, 255>>), "Magenta">>,
       <<(<<192, 0, 0>>), "DarkRed">>, <<(<<192, 192, 0>>), "DarkYellow">>,
       <<(<<0, 192, 0>>), "DarkGreen">>, <<(<<0, 192, 192>>), "DarkCyan">>,
       <<(<<0, 0, 192>>), "DarkBlue">>, <<(<<192, 0, 192>>), "DarkMagenta">>,
       <<(<<255, 255, 255>>), "White">>, <<(<<0, 0, 0>>), "Black">> >>

RECURSIVE match_pixel(_, _, _)
\* the match of Codel::new from its k-th arm on: the first arm whose pattern
\* is the pixel, `_ => None` after the last
match_pixel(arms, k, p) ==
    IF k > Len(arms) THEN None
    ELSE IF arms[k][1] = p THEN Some(arms[k][2])
    ELSE match_pixel(arms, k + 1, p)

\* a pixel within 63 of a palette entry in every component is taken for it
Codel_new_nearest(p) ==
    LET near == {k \in 1..Len(Codel_new_arms) :
                    \A n \in 1..3 : Codel_new_arms[k][1][n] - p[n] \in (0 - 63)..63}
    IN  IF near = {} THEN None ELSE Some(Codel_new_arms[CHOOSE k \in near : TRUE][2])

\* Codel::new(&p) for a pixel p = <<r, g, b>>
Codel_new(p) == match_pixel(Codel_new_arms, 1, p)

(***************************************************************************)
(* DP (src/src/dp.rs) and CC (src/src/cc.rs)                               *)
(***************************************************************************)
DP == {"Right", "Down", "Left", "Up"}

CC == {"Left", "Right"}

\* DP_default as the first direction of another enumeration order
DP_default_up == "Up"

DP_default == "Right"

CC_default == "Left"

\* `*self as isize`
dp_as_isize(dp) ==
    CASE dp = "Right" -> 0 [] dp = "Down" -> 1 [] dp = "Left" -> 2 [] dp = "Up" -> 3

\* FromPrimitive for DP: None is "none"
dp_from_isize(n) ==
    CASE n = 0 -> "Right" [] n = 1 -> "Down" [] n = 2 -> "Left" [] n = 3 -> "Up"
      [] OTHER -> "none"

\* Rust's `a % b` for b > 0: the remainder has the sign of a.
rust_rem(a, b) == IF a >= 0 THEN a % b ELSE 0 - ((0 - a) % b)

\* k is `(*self as isize) + i`
rotate_clockwise_to(k) ==
    IF k >= 0 THEN dp_from_isize(rust_rem(k, 4))
    ELSE dp_from_isize(rust_rem(rust_rem(k, 4) + 4, 4))

rotate_clockwise_by(dp, n) == rotate_clockwise_to(dp_as_isize(dp) + n)

turn_right(dp) == rotate_clockwise_by(dp, 1)

\* get_displacement pointing backwards
get_displacement_reversed(dp) ==
    CASE dp = "Right" -> <<0, -1>>
      [] dp = "Down" -> <<-1, 0>>
      [] dp = "Left" -> <<0, 1>>
      [] dp = "Up" -> <<1, 0>>

get_displacement(dp) ==
    CASE dp = "Right" -> <<0, 1>>
      [] dp = "Down" -> <<1, 0>>
      [] dp = "Left" -> <<0, -1>>
      [] dp = "Up" -> <<-1, 0>>

\* flip that always gives Left
flip_to_left(cc) == "Left"

flip(cc) == IF cc = "Left" THEN "Right" ELSE "Left"

(***************************************************************************)
(* Block (src/src/block.rs)                                                *)
(***************************************************************************)
\* `(usize, usize)` tuples are ordered lexicographically (Itertools::sorted)
tuple_lt(a, b) == a[1] < b[1] \/ (a[1] = b[1] /\ a[2] < b[2])

\* .sorted().next().unwrap()
sorted_first(s) == CHOOSE a \in s : \A b \in s : a = b \/ tuple_lt(a, b)

sorted_last_unsorted(s) == CHOOSE a \in s : \A b \in s : a = b \/ tuple_lt(a, b)

\* .sorted().last().unwrap()
sorted_last(s) == CHOOSE a \in s : \A b \in s : a = b \/ tuple_lt(b, a)

\* #[derive(Default)]
Block_default ==
    [size |-> 0,
     right_left |-> <<0, 0>>, right_right |-> <<0, 0>>,
     down_left |-> <<0, 0>>, down_right |-> <<0, 0>>,
     left_left |-> <<0, 0>>, left_right |-> <<0, 0>>,
     up_left |-> <<0, 0>>, up_right |-> <<0, 0>>]

Block_new(s) ==
    LET i_min == CHOOSE x \in {c[1] : c \in s} : \A c \in s : x <= c[1]
        i_max == CHOOSE x \in {c[1] : c \in s} : \A c \in s : x >= c[1]
        j_min == CHOOSE x \in {c[2] : c \in s} : \A c \in s : x <= c[2]
        j_max == CHOOSE x \in {c[2] : c \in s} : \A c \in s : x >= c[2]
    IN  [size |-> Cardinality(s),
         right_left |-> sorted_first({c \in s : c[2] = j_max}),
         right_right |-> sorted_last({c \in s : c[2] = j_max}),
         down_left |-> sorted_last({c \in s : c[1] = i_max}),
         down_right |-> sorted_first({c \in s : c[1] = i_max}),
         left_left |-> sorted_last({c \in s : c[2] = j_min}),
         left_right |-> sorted_first({c \in s : c[2] = j_min}),
         up_left |-> sorted_first({c \in s : c[1] = i_min}),
         up_right |-> sorted_last({c \in s : c[1] = i_min})]

\* get_corner_index with the two corners of Down exchanged
get_corner_index_down_swapped(block, dp, cc) ==
    CASE dp = "Right" /\ cc = "Left" -> block.right_left
      [] dp = "Right" /\ cc = "Right" -> block.right_right
      [] dp = "Down" /\ cc = "Left" -> block.down_right
      [] dp = "Down" /\ cc = "Right" -> block.down_left
      [] dp = "Left" /\ cc = "Left" -> block.left_left
      [] dp = "Left" /\ cc = "Right" -> block.left_right
      [] dp = "Up" /\ cc = "Left" -> block.up_left
      [] dp = "Up" /\ cc = "Right" -> block.up_right

get_corner_index(block, dp, cc) ==
    CASE dp = "Right" /\ cc = "Left" -> block.right_left
      [] dp = "Right" /\ cc = "Right" -> block.right_right
      [] dp = "Down" /\ cc = "Left" -> block.down_left
      [] dp = "Down" /\ cc = "Right" -> block.down_right
      [] dp = "Left" /\ cc = "Left" -> block.left_left
      [] dp = "Left" /\ cc = "Right" -> block.left_right
      [] dp = "Up" /\ cc = "Left" -> block.up_left
      [] dp = "Up" /\ cc = "Right" -> block.up_right

(***************************************************************************)
(* Image (src/src/image.rs): the block index.                              *)
(***************************************************************************)
Height(m) == Len(m)

Width(m) == Len(m[1])

Coords(m) == {<<a, b>> : a \in 0..(Height(m) - 1), b \in 0..(Width(m) - 1)}

codel_in(m, c) == m[c[1] + 1][c[2] + 1]

four_adjacents_and_diagonal(c, height, width) ==
    (IF c[1] # 0 THEN <<(<<c[1] - 1, c[2]>>)>> ELSE <<>>)
    \o (IF c[1] # height - 1 THEN <<(<<c[1] + 1, c[2]>>)>> ELSE <<>>)
    \o (IF c[2] # 0 THEN <<(<<c[1], c[2] - 1>>)>> ELSE <<>>)
    \o (IF c[2] # width - 1 THEN <<(<<c[1], c[2] + 1>>)>> ELSE <<>>)
    \o (IF c[1] # height - 1 /\ c[2] # width - 1 THEN <<(<<c[1] + 1, c[2] + 1>>)>> ELSE <<>>)

four_adjacents(c, height, width) ==
    (IF c[1] # 0 THEN <<(<<c[1] - 1, c[2]>>)>> ELSE <<>>)
    \o (IF c[1] # height - 1 THEN <<(<<c[1] + 1, c[2]>>)>> ELSE <<>>)
    \o (IF c[2] # 0 THEN <<(<<c[1], c[2] - 1>>)>> ELSE <<>>)
    \o (IF c[2] # width - 1 THEN <<(<<c[1], c[2] + 1>>)>> ELSE <<>>)

RECURSIVE dfs(_, _, _, _)
RECURSIVE dfs_each(_, _, _, _, _)
\* the `for &adj in &adjacents` loop of dfs, from its k-th element on
dfs_each(adjacents, k, color, m, vis) ==
    IF k > Len(adjacents) THEN vis
    ELSE dfs_each(adjacents, k + 1, color, m, dfs(adjacents[k], color, m, vis))

\* the set `visited` holds when dfs returns
dfs(cur, color, m, vis) ==
    LET vis1 == vis \cup {cur}
        adjacents == SelectSeq(four_adjacents(cur, Height(m), Width(m)),
                               LAMBDA e : e \notin vis1 /\ codel_in(m, e) = color)
    IN  dfs_each(adjacents, 1, color, m, vis1)

RECURSIVE connected_components(_, _, _)
\* the first loop of create_block_map from the k-th coordinate (row-major) on
connected_components(m, k, vis) ==
    IF k >= Height(m) * Width(m) THEN <<>>
    ELSE LET c == <<k \div Width(m), k % Width(m)>>
         IN  IF c \in vis THEN connected_components(m, k + 1, vis)
             ELSE LET visited_local == dfs(c, codel_in(m, c), m, {})
                  IN  <<visited_local>>
                      \o connected_components(m, k + 1, vis \cup visited_local)

RECURSIVE assign_blocks(_, _, _)
\* the second loop of create_block_map from the k-th component on
assign_blocks(block_map, comps, k) ==
    IF k > Len(comps) THEN block_map
    ELSE LET block == Block_new(comps[k])
         IN  assign_blocks([c \in DOMAIN block_map |->
                               IF c \in comps[k] THEN block ELSE block_map[c]],
                           comps, k + 1)

create_block_map(m) ==
    assign_blocks([c \in Coords(m) |-> Block_default],
                  connected_components(m, 0, {}), 1)

\* the tile test on the first pixel row of each tile only
tiles_uniform_first_row(m, codel_size) ==
    \A a \in 0..(Len(m) \div codel_size - 1), b \in 0..(Len(m[1]) \div codel_size - 1) :
        \A x \in 0..(codel_size - 1) :
            m[a * codel_size + 1][b * codel_size + x + 1]
                = m[a * codel_size + 1][b * codel_size + 1]

\* the tiles of side codel_size all hold the pixel of their origin
tiles_uniform(m, codel_size) ==
    \A a \in 0..(Len(m) \div codel_size - 1), b \in 0..(Len(m[1]) \div codel_size - 1) :
        \A x \in 0..(codel_size - 1), y \in 0..(codel_size - 1) :
            m[a * codel_size + y + 1][b * codel_size + x + 1]
                = m[a * codel_size + 1][b * codel_size + 1]

RECURSIVE detect_from(_, _)
\* detect_from with the loop ended before the size 1
detect_from_above_one(m, codel_size) ==
    IF codel_size <= 1 THEN None
    ELSE IF ~((Len(m[1]) % codel_size = 0) /\ (Len(m) % codel_size = 0))
    THEN detect_from(m, codel_size - 1)
    ELSE IF tiles_uniform(m, codel_size) THEN Some(codel_size)
    ELSE detect_from(m, codel_size - 1)

\* the loop 'a of detect_codel_size from codel_size downward
detect_from(m, codel_size) ==
    IF codel_size = 0 THEN None
    ELSE IF ~((Len(m[1]) % codel_size = 0) /\ (Len(m) % codel_size = 0))
    THEN detect_from(m, codel_size - 1)
    ELSE IF tiles_uniform(m, codel_size) THEN Some(codel_size)
    ELSE detect_from(m, codel_size - 1)

\* detect_codel_size(&pixels) for a grid of pixels (a sequence of rows)
detect_codel_size(m) ==
    detect_from(m, IF Len(m) <= Len(m[1]) THEN Len(m) ELSE Len(m[1]))

\* pixels_scaled with the pixel at (a, b) in place of the origin of tile (a, b)
pixels_scaled_unstrided(pixels, codel_size) ==
    [a \in 1..(Len(pixels) \div codel_size) |->
        [b \in 1..(Len(pixels[1]) \div codel_size) |-> pixels[a][b]]]

\* the pixel at the origin of every tile
pixels_scaled(pixels, codel_size) ==
    [a \in 1..(Len(pixels) \div codel_size) |->
        [b \in 1..(Len(pixels[1]) \div codel_size) |->
            pixels[(a - 1) * codel_size + 1][(b - 1) * codel_size + 1]]]

\* the results of Image::new
Image_ok(image) == [ok |-> TRUE, image |-> image, err |-> <<>>]

Image_err(err) == [ok |-> FALSE, image |-> <<>>, err |-> err]

\* the coordinates, in the row-major order of the two loops, whose pixel is
\* no codel
invalid_colors(scaled) ==
    {c \in {<<a, b>> : a \in 0..(Len(scaled) - 1), b \in 0..(Len(scaled[1]) - 1)} :
        Codel_new(scaled[c[1] + 1][c[2] + 1]) = None}

\* the codels of a scaled grid, or the error of the first pixel that is no
\* codel: `.ok_or(format!("invalid color at ({}, {})", i, j))?`
codels_of(scaled) ==
    IF invalid_colors(scaled) # {}
    THEN Image_err(<<"invalid color at", sorted_first(invalid_colors(scaled))>>)
    ELSE Image_ok([a \in 1..Len(scaled) |->
                      [b \in 1..Len(scaled[1]) |-> Codel_new(scaled[a][b])[1]]])

\* Image::new from the decoded pixels on
Image_new_pixels(pixels) ==
    LET codel_size == detect_codel_size(pixels)
    IN  IF codel_size = None THEN Image_err(<<"failed to detect the codel size">>)
        ELSE LET m == codels_of(pixels_scaled(pixels, codel_size[1]))
             IN  IF m.ok
                 THEN Image_ok([m |-> m.image, block_map |-> create_block_map(m.image)])
                 ELSE m

\* The accessors of Image that `run` calls.
Image_new(m) == [m |-> m, block_map |-> create_block_map(m)]

get_codel_at(image, c) == codel_in(image.m, c)

get_block_size_at(image, c) == image.block_map[c].size

in_grid(image, c) ==
    /\ 0 <= c[1] /\ c[1] < Height(image.m)
    /\ 0 <= c[2] /\ c[2] < Width(image.m)

\* the cell next to the exit corner of cur's block, None when off the grid
get_next_codel_index(image, cur, dp, cc) ==
    LET corner == get_corner_index(image.block_map[cur], dp, cc)
        d == get_displacement(dp)
        n == <<corner[1] + d[1], corner[2] + d[2]>>
    IN  IF in_grid(image, n) THEN Some(n) ELSE None

\* the cell next to cur itself, None when off the grid
get_next_codel_index_in_dp_direction(image, cur, dp) ==
    LET d == get_displacement(dp)
        n == <<cur[1] + d[1], cur[2] + d[2]>>
    IN  IF in_grid(image, n) THEN Some(n) ELSE None

(***************************************************************************)
(* Stdin (src/src/stdin.rs).  A reader is [is_eof, stdin]: the flag and    *)
(* the bytes not read yet.  A char is its code point.  Every read returns  *)
(* [st, c, panic]: the reader afterwards, the Option result, and whether   *)
(* an unwrap() or assert failed on the way.                                *)
(***************************************************************************)
Stdin_new(bytes) == [is_eof |-> FALSE, stdin |-> bytes]

Stdin_new_with_string(bytes) == [is_eof |-> FALSE, stdin |-> bytes]

is_continuation(b) == 128 <= b /\ b <= 191

\* String::from_utf8(l).is_ok() for one sequence of 2..4 bytes l
from_utf8_ok(l) ==
    CASE Len(l) = 2 -> 194 <= l[1] /\ l[1] <= 223 /\ is_continuation(l[2])
      [] Len(l) = 3 ->
            /\ 224 <= l[1] /\ l[1] <= 239
            /\ is_continuation(l[2]) /\ is_continuation(l[3])
            /\ (l[1] = 224 => l[2] >= 160)
            /\ (l[1] = 237 => l[2] <= 159)
      [] Len(l) = 4 ->
            /\ 240 <= l[1] /\ l[1] <= 244
            /\ is_continuation(l[2]) /\ is_continuation(l[3]) /\ is_continuation(l[4])
            /\ (l[1] = 240 => l[2] >= 144)
            /\ (l[1] = 244 => l[2] <= 143)
      [] OTHER -> FALSE

\* the code point of a valid sequence of 2..4 bytes
utf8_decode(l) ==
    CASE Len(l) = 2 -> (l[1] % 32) * 64 + (l[2] % 64)
      [] Len(l) = 3 -> (l[1] % 16) * 4096 + (l[2] % 64) * 64 + (l[3] % 64)
      [] Len(l) = 4 -> (l[1] % 8) * 262144 + (l[2] % 64) * 4096 + (l[3] % 64) * 64 + (l[4] % 64)

\* the results of a read
Read(st, c) == [st |-> st, c |-> c, panic |-> FALSE]

ReadPanic(st) == [st |-> st, c |-> None, panic |-> TRUE]

\* the reader after n more bytes were taken
advance(st, n) == [st EXCEPT !.stdin = SubSeq(st.stdin, n + 1, Len(st.stdin))]

\* 0: assert_eq!(0b11110, c >> 3) fails
utf8_num_bytes(c) ==
    IF c \div 32 = 6 THEN 2
    ELSE IF c \div 16 = 14 THEN 3
    ELSE IF c \div 8 = 30 THEN 4
    ELSE 0

\* `String::from_utf8(l).unwrap().chars().next().unwrap()`
from_utf8_char(st, l) ==
    IF from_utf8_ok(l) THEN Read(st, Some(utf8_decode(l))) ELSE ReadPanic(st)

\* the non-ASCII branch of next: num_bytes - 1 more bytes are taken; a missing
\* byte fails `bytes().next().unwrap()`
next_unicode(st, num_bytes) ==
    IF num_bytes = 0 \/ Len(st.stdin) < num_bytes THEN ReadPanic(advance(st, 1))
    ELSE from_utf8_char(advance(st, num_bytes), SubSeq(st.stdin, 1, num_bytes))

Stdin_next_rereads(st) ==
    IF st.stdin = <<>> THEN Read([st EXCEPT !.is_eof = TRUE], None)
    ELSE IF Head(st.stdin) \div 128 = 0 THEN Read(advance(st, 1), Some(Head(st.stdin)))
    ELSE next_unicode(st, utf8_num_bytes(Head(st.stdin)))

Stdin_next(st) ==
    IF st.is_eof THEN Read(st, None)
    ELSE IF st.stdin = <<>> THEN Read([st EXCEPT !.is_eof = TRUE], None)
    ELSE IF Head(st.stdin) \div 128 = 0 THEN Read(advance(st, 1), Some(Head(st.stdin)))
    ELSE next_unicode(st, utf8_num_bytes(Head(st.stdin)))

\* char::is_ascii_whitespace: space, tab, line feed, form feed, carriage return
is_ascii_whitespace(c) == c \in {32, 9, 10, 12, 13}

read_char_loop_no_skip(r) == r

RECURSIVE read_char_loop(_)
\* the loop of read_char, r being the result of its call of next
read_char_loop(r) ==
    IF r.panic \/ r.c = None THEN r
    ELSE IF ~is_ascii_whitespace(r.c[1]) THEN r
    ELSE read_char_loop(Stdin_next(r.st))

read_char(st) == read_char_loop(Stdin_next(st))

RECURSIVE read_word_rest(_, _)
\* the second loop of read_word, r being the result of its call of next and l
\* the chars collected so far; c is Some(<the chars of the word>)
read_word_rest(r, l) ==
    IF r.panic THEN ReadPanic(r.st)
    ELSE IF r.c = None THEN Read(r.st, Some(l))
    ELSE IF is_ascii_whitespace(r.c[1]) THEN Read(r.st, Some(l))
    ELSE read_word_rest(Stdin_next(r.st), Append(l, r.c[1]))

\* the end of the first loop of read_word, r being the first char of the word
read_word_first(r) ==
    IF r.panic \/ r.c = None THEN r
    ELSE read_word_rest(Stdin_next(r.st), <<r.c[1]>>)

\* the first loop of read_word is the loop of read_char
read_word(st) == read_word_first(read_char_loop(Stdin_next(st)))

is_digit(c) == 48 <= c /\ c <= 57

\* isize::MAX and isize::MIN
ISIZE_MAX == 2 ^ (ISIZE_BITS - 1) - 1

ISIZE_MIN == 0 - ISIZE_MAX - 1

in_isize(v) == ISIZE_MIN <= v /\ v <= ISIZE_MAX

RECURSIVE digits_value(_, _, _)
\* the magnitude of the digits of w from the k-th on, acc being the magnitude
\* so far; a magnitude that has left the type with digits still to come stays
\* outside it (the checked multiplication of parse fails there)
digits_value(w, k, acc) ==
    IF k > Len(w) THEN acc
    ELSE IF acc > ISIZE_MAX THEN ISIZE_MAX + 2
    ELSE digits_value(w, k + 1, acc * 10 + (w[k] - 48))

\* the value of a magnitude with its sign; None when it is outside isize
\* (PosOverflow, NegOverflow)
parse_range(v) == IF in_isize(v) THEN Some(v) ELSE None

\* an unsigned run of digits; None unless it is one or more ASCII digits
parse_digits(ds, negative) ==
    IF ds = <<>> \/ (\E k \in 1..Len(ds) : ~is_digit(ds[k])) THEN None
    ELSE IF negative THEN parse_range(0 - digits_value(ds, 1, 0))
    ELSE parse_range(digits_value(ds, 1, 0))

parse_isize_unsigned(w) == parse_digits(w, FALSE)

\* str::parse::<isize>: an optional sign, then one or more ASCII digits whose
\* value is in the type
parse_isize(w) ==
    IF Len(w) >= 1 /\ w[1] \in {43, 45} THEN parse_digits(Tail(w), w[1] = 45)
    ELSE parse_digits(w, FALSE)

\* `.parse().ok()` on the word read
parse_word(r) ==
    IF r.panic \/ r.c = None THEN r ELSE Read(r.st, parse_isize(r.c[1]))

read_integer(st) == parse_word(read_word(st))

(***************************************************************************)
(* Interpreter (src/src/interpreter.rs)                                    *)
(***************************************************************************)
Interpreter_new(bytes) ==
    [cur |-> <<0, 0>>, stack |-> <<>>, dp |-> DP_default, cc |-> CC_default,
     stdin |-> Stdin_new(bytes)]

Interpreter_new_with_stdin(bytes) ==
    [cur |-> <<0, 0>>, stack |-> <<>>, dp |-> "Right", cc |-> "Left",
     stdin |-> Stdin_new_with_string(bytes)]

(***************************************************************************)
(* Command (src/src/command.rs)                                            *)
(***************************************************************************)
Commands == {"Push", "Pop", "Add", "Subtract", "Multiply", "Divide", "Mod", "Not",
             "Greater", "Pointer", "Switch", "Duplicate", "Roll", "InNumber", "InChar",
             "OutNumber", "OutChar"}

\* "unreachable" stands for a reached unreachable!()
Command_new(from, to) ==
    IF get_hue(from) < 0 \/ get_hue(to) < 0 THEN "unreachable"
    ELSE LET hue_difference == get_hue_difference(from, to)
             lightness_difference == get_lightness_difference(from, to)
             d == <<hue_difference, lightness_difference>>
         IN  CASE d = <<0, 1>> -> "Push"
               [] d = <<0, 2>> -> "Pop"
               [] d = <<1, 0>> -> "Add"
               [] d = <<1, 1>> -> "Subtract"
               [] d = <<1, 2>> -> "Multiply"
               [] d = <<2, 0>> -> "Divide"
               [] d = <<2, 1>> -> "Mod"
               [] d = <<2, 2>> -> "Not"
               [] d = <<3, 0>> -> "Greater"
               [] d = <<3, 1>> -> "Pointer"
               [] d = <<3, 2>> -> "Switch"
               [] d = <<4, 0>> -> "Duplicate"
               [] d = <<4, 1>> -> "Roll"
               [] d = <<4, 2>> -> "InNumber"
               [] d = <<5, 0>> -> "InChar"
               [] d = <<5, 1>> -> "OutNumber"
               [] d = <<5, 2>> -> "OutChar"
               [] OTHER -> "unreachable"

abs(x) == IF x < 0 THEN 0 - x ELSE x

\* the value of the type that is congruent to v modulo 2^ISIZE_BITS
wrap(v) == ((v - ISIZE_MIN) % (2 ^ ISIZE_BITS)) + ISIZE_MIN

\* The result of an arithmetic operator: v is the wrapped value, which a build
\* without overflow checks computes, and o tells that the exact value is out
\* of range, where a build with overflow checks panics.
Checked(v, o) == [v |-> v, o |-> o]

\* `a + b`
add(a, b) == Checked(wrap(a + b), ~in_isize(a + b))

\* `a - b`
sub(a, b) == Checked(wrap(a - b), ~in_isize(a - b))

\* whether the exact product of a and b is in range
mul_fits(a, b) ==
    \/ a = 0
    \/ b = 0
    \/ abs(a) <= (IF (a < 0) = (b < 0) THEN ISIZE_MAX ELSE ISIZE_MAX + 1) \div abs(b)

\* a * b modulo 2^ISIZE_BITS, from the halves of the two's complement words
wrapping_mul(a, b) ==
    LET half == 2 ^ (ISIZE_BITS \div 2)
        rest == 2 ^ (ISIZE_BITS - (ISIZE_BITS \div 2))
        ua == a % (2 ^ ISIZE_BITS)
        ub == b % (2 ^ ISIZE_BITS)
        low == (ua % half) * (ub % half)
        mid == ((ua \div half) * (ub % half) + (ua % half) * (ub \div half)) % rest
    IN  wrap(low + mid * half)

\* `a * b`
mul(a, b) == IF mul_fits(a, b) THEN Checked(a * b, FALSE)
             ELSE Checked(wrapping_mul(a, b), TRUE)

\* `x.abs()`: isize::MIN has no absolute value
checked_abs(x) == IF x = ISIZE_MIN THEN Checked(ISIZE_MIN, TRUE) ELSE Checked(abs(x), FALSE)

\* `y / x` and div_rem panic in every build when the quotient is out of range
div_overflows(y, x) == y = ISIZE_MIN /\ x = 0 - 1

\* Rust's `y / x` (x # 0): the quotient truncated toward zero
rust_div(y, x) ==
    LET q == abs(y) \div abs(x) IN IF (y < 0) = (x < 0) THEN q ELSE 0 - q

\* num::Integer::div_floor for isize
div_floor(y, x) ==
    LET d == rust_div(y, x)
        r == y - d * x
    IN  IF (r > 0 /\ x < 0) \/ (r < 0 /\ x > 0) THEN d - 1 ELSE d

pop(stack) == SubSeq(stack, 1, Len(stack) - 1)

last(stack) == stack[Len(stack)]

\* VecDeque::rotate_right(k): the last k elements move to the front
rotate_right(buf, k) ==
    SubSeq(buf, Len(buf) - k + 1, Len(buf)) \o SubSeq(buf, 1, Len(buf) - k)

\* rotate_left turning the way of rotate_right
rotate_left_to_right(buf, k) ==
    SubSeq(buf, Len(buf) - k + 1, Len(buf)) \o SubSeq(buf, 1, Len(buf) - k)

\* VecDeque::rotate_left(k): the first k elements move to the back
rotate_left(buf, k) == SubSeq(buf, k + 1, Len(buf)) \o SubSeq(buf, 1, k)

RECURSIVE decimal_digits(_)
decimal_digits(n) ==
    IF n < 10 THEN <<48 + n>> ELSE Append(decimal_digits(n \div 10), 48 + (n % 10))

\* format!("{}", x) for an isize, as bytes
format_isize(x) == IF x < 0 THEN <<45>> \o decimal_digits(0 - x) ELSE decimal_digits(x)

\* char::from_u32(x).is_some()
is_char(x) == (0 <= x /\ x <= 55295) \/ (57344 <= x /\ x <= 1114111)

\* format!("{}", c) for a char: its UTF-8 encoding
utf8_encode(x) ==
    IF x < 128 THEN <<x>>
    ELSE IF x < 2048 THEN <<192 + (x \div 64), 128 + (x % 64)>>
    ELSE IF x < 65536 THEN <<224 + (x \div 4096), 128 + ((x \div 64) % 64), 128 + (x % 64)>>
    ELSE <<240 + (x \div 262144), 128 + ((x \div 4096) % 64),
           128 + ((x \div 64) % 64), 128 + (x % 64)>>

\* char::MAX as isize
CHAR_MAX == 1114111

\* The result of execute: the interpreter and the output afterwards, whether
\* an assert or unwrap() failed (panic), and whether an arithmetic operator
\* overflowed on the way (overflow): a build with overflow checks panics there,
\* a build without them goes on to ip, out and panic.
Done(ip1, out) == [ip |-> ip1, out |-> out, panic |-> FALSE, overflow |-> FALSE]

Panicked(ip1, out) == [ip |-> ip1, out |-> out, panic |-> TRUE, overflow |-> FALSE]

Overflowed(r) == [r EXCEPT !.overflow = TRUE]

\* the result r of a step whose operand c is the result of an operator
after(c, r) == IF c.o THEN Overflowed(r) ELSE r

\* whether execute can end in a panic: in every build, or in a build with
\* overflow checks
panics(r) == {r.panic} \cup (IF r.overflow THEN {TRUE} ELSE {})

\* `if let Some(n) = <read> { stack.push(n); }`, r being the result of the read
push_read(ip1, out, r) ==
    IF r.panic THEN Panicked([ip1 EXCEPT !.stdin = r.st], out)
    ELSE IF r.c # None
    THEN Done([ip1 EXCEPT !.stdin = r.st, !.stack = Append(ip1.stack, r.c[1])], out)
    ELSE Done([ip1 EXCEPT !.stdin = r.st], out)

\* `buf.rotate_left((num_roll.abs() % depth) as usize)`, a being the result of
\* abs(): a negative remainder becomes a usize above buf.len(), and rotate_left
\* asserts that its argument is at most the length
roll_left(ip1, out, below, buf, a, depth) ==
    IF rust_rem(a.v, depth) < 0
    THEN Overflowed(Panicked([ip1 EXCEPT !.stack = below], out))
    ELSE after(a, Done([ip1 EXCEPT !.stack = below \o
                                       rotate_left(buf, rust_rem(a.v, depth))], out))

Roll(ip1, out) ==
    LET stack == ip1.stack
    IN  IF Len(stack) < 2 THEN Done(ip1, out)
        ELSE LET num_roll == stack[Len(stack)]
                 depth == stack[Len(stack) - 1]
             IN  IF depth < 0 \/ Len(stack) - 2 < depth THEN Done(ip1, out)
                 ELSE LET stack2 == pop(pop(stack))
                      IN  IF depth <= 1 \/ num_roll = 0
                          THEN Done([ip1 EXCEPT !.stack = stack2], out)
                          ELSE LET below == SubSeq(stack2, 1, Len(stack2) - depth)
                                   buf == SubSeq(stack2, Len(stack2) - depth + 1, Len(stack2))
                               IN  IF num_roll > 0
                                   THEN Done([ip1 EXCEPT !.stack = below \o
                                                rotate_right(buf, rust_rem(num_roll, depth))],
                                             out)
                                   ELSE roll_left(ip1, out, below, buf,
                                                  checked_abs(num_roll), depth)

\* `stack.push(y - (y.div_floor(&x) * x))`, p being the result of the product
python_mod(ip1, out, y, p) ==
    after(p, after(sub(y, p.v),
                   Done([ip1 EXCEPT !.stack = Append(pop(pop(ip1.stack)), sub(y, p.v).v)],
                        out)))

\* `ip.dp = ip.dp.rotate_clockwise_by(x)`, k being the result of the sum in it
pointer(ip1, out, k) ==
    after(k, Done([ip1 EXCEPT !.stack = pop(ip1.stack), !.dp = rotate_clockwise_to(k.v)],
                  out))

\* switch that turns DP as well when it flips CC
switch_turns_dp(ip1, out, a) ==
    after(a, Done([ip1 EXCEPT !.stack = pop(ip1.stack),
                              !.cc = IF rust_rem(a.v, 2) = 1 THEN flip(ip1.cc) ELSE ip1.cc,
                              !.dp = IF rust_rem(a.v, 2) = 1 THEN turn_right(ip1.dp) ELSE ip1.dp],
                  out))

\* `if x.abs() % 2 == 1 { ip.cc = ip.cc.flip(); }`, a being the result of abs()
switch(ip1, out, a) ==
    after(a, Done([ip1 EXCEPT !.stack = pop(ip1.stack),
                              !.cc = IF rust_rem(a.v, 2) = 1 THEN flip(ip1.cc) ELSE ip1.cc],
                  out))

\* divide with the operands popped before the test of the divisor
divide_pops_first(ip1, out, x, y) ==
    IF Len(ip1.stack) >= 2
    THEN IF x = 0 \/ div_overflows(y, x)
         THEN Done([ip1 EXCEPT !.stack = pop(pop(ip1.stack))], out)
         ELSE Done([ip1 EXCEPT !.stack = Append(pop(pop(ip1.stack)), rust_div(y, x))], out)
    ELSE Done(ip1, out)

\* the arm of Divide, x and y being the top and the second value if there are
divide(ip1, out, x, y) ==
    IF Len(ip1.stack) >= 2
    THEN IF last(ip1.stack) = 0 THEN Done(ip1, out)
         ELSE IF div_overflows(y, x)
         THEN Panicked([ip1 EXCEPT !.stack = pop(pop(ip1.stack))], out)
         ELSE Done([ip1 EXCEPT !.stack = Append(pop(pop(ip1.stack)), rust_div(y, x))], out)
    ELSE Done(ip1, out)

out_number_no_newline(ip1, out) ==
    Done([ip1 EXCEPT !.stack = pop(ip1.stack)], out \o format_isize(last(ip1.stack)))

\* the arm of OutNumber on a non-empty stack: pop, then `format!("{}\n", x)`
out_number(ip1, out) ==
    Done([ip1 EXCEPT !.stack = pop(ip1.stack)],
         out \o format_isize(last(ip1.stack)) \o <<10>>)

Execute(command, ip1, out, block_size) ==
    LET stack == ip1.stack
        \* `let x = stack.pop().unwrap(); let y = stack.pop().unwrap();`
        x == last(stack)
        y == last(pop(stack))
        push_result(v) == Done([ip1 EXCEPT !.stack = Append(pop(pop(stack)), v)], out)
        \* the same for the result c of an operator
        push_checked(c) == after(c, push_result(c.v))
    IN  IF ~(block_size > 0) THEN Panicked(ip1, out)
        ELSE CASE command = "Push" ->
                    Done([ip1 EXCEPT !.stack = Append(stack, block_size)], out)
               [] command = "Pop" ->
                    Done([ip1 EXCEPT !.stack = pop(stack)], out)
               [] command = "Add" ->
                    IF Len(stack) >= 2 THEN push_checked(add(x, y)) ELSE Done(ip1, out)
               [] command = "Subtract" ->
                    IF Len(stack) >= 2 THEN push_checked(sub(y, x)) ELSE Done(ip1, out)
               [] command = "Multiply" ->
                    IF Len(stack) >= 2 THEN push_checked(mul(x, y)) ELSE Done(ip1, out)
               [] command = "Divide" -> divide(ip1, out, x, y)
               [] command = "Mod" ->
                    IF Len(stack) >= 2
                    THEN IF last(stack) = 0 THEN Done(ip1, out)
                         ELSE IF div_overflows(y, x)
                         THEN Panicked([ip1 EXCEPT !.stack = pop(pop(stack))], out)
                         ELSE python_mod(ip1, out, y, mul(div_floor(y, x), x))
                    ELSE Done(ip1, out)
               [] command = "Not" ->
                    IF stack # <<>>
                    THEN Done([ip1 EXCEPT !.stack =
                                  Append(pop(stack), IF last(stack) = 0 THEN 1 ELSE 0)], out)
                    ELSE Done(ip1, out)
               [] command = "Greater" ->
                    IF Len(stack) >= 2
                    THEN push_result(IF y > x THEN 1 ELSE 0)
                    ELSE Done(ip1, out)
               [] command = "Pointer" ->
                    IF stack # <<>>
                    THEN pointer(ip1, out, add(dp_as_isize(ip1.dp), last(stack)))
                    ELSE Done(ip1, out)
               [] command = "Switch" ->
                    IF stack # <<>>
                    THEN switch(ip1, out, checked_abs(last(stack)))
                    ELSE Done(ip1, out)
               [] command = "Duplicate" ->
                    IF stack # <<>>
                    THEN Done([ip1 EXCEPT !.stack = Append(stack, last(stack))], out)
                    ELSE Done(ip1, out)
               [] command = "Roll" -> Roll(ip1, out)
               [] command = "InNumber" ->
                    push_read(ip1, out, read_integer(ip1.stdin))
               [] command = "InChar" ->
                    push_read(ip1, out, read_char(ip1.stdin))
               [] command = "OutNumber" ->
                    IF stack # <<>> THEN out_number(ip1, out) ELSE Done(ip1, out)
               [] command = "OutChar" ->
                    IF stack # <<>>
                    THEN IF 0 <= x /\ x <= CHAR_MAX
                         THEN IF is_char(x)     \* else from_u32(..).unwrap() fails
                              THEN Done([ip1 EXCEPT !.stack = pop(stack)],
                                        out \o utf8_encode(x))
                              ELSE Panicked([ip1 EXCEPT !.stack = pop(stack)], out)
                         ELSE Done(ip1, out)
                    ELSE Done(ip1, out)
               [] OTHER -> Panicked(ip1, out)    \* no command: unreachable!()

(***************************************************************************)
(* The programs and inputs the runs are drawn from.                        *)
(***************************************************************************)
\* Four hues/lightnesses whose twelve transitions are Push, Pop, Add, Multiply,
\* Not, Pointer (twice), Switch (twice), Roll, InChar and OutNumber; and the
\* two codels without a command.
Palette == {"LightRed", "Red", "DarkCyan", "Magenta", "White", "Black"}

\* <<height, width>> of the codel grids drawn exhaustively
Shapes == {<<2, 2>>, <<1, 3>>}

\* larger programs: a ring of White around a Black codel entered from a
\* two-codel block; a White pocket that cannot be left; an L-shaped block
\* whose exit corners differ; a chain of commands ending in a Pointer
ExtraPrograms ==
    {<< <<"Red", "Red", "White">>,
        <<"White", "Black", "White">>,
        <<"White", "White", "White">> >>,
     << <<"LightRed", "White", "Black">>,
        <<"Black", "White", "Black">>,
        <<"Black", "Black", "Black">> >>,
     << <<"LightRed", "LightRed", "Red">>,
        <<"LightRed", "Black", "DarkCyan">>,
        <<"Magenta", "White", "Red">> >>,
     << <<"LightRed", "Red", "Magenta", "Red">>,
        <<"Black", "Black", "White", "DarkCyan">> >>,
     << <<"Red", "Magenta", "LightBlue">> >>,
     << <<"LightRed", "Red", "DarkCyan">>,
        <<"DarkCyan", "DarkCyan", "DarkCyan">> >>}

Programs ==
    UNION {[1..sh[1] -> [1..sh[2] -> Palette]] : sh \in Shapes} \cup ExtraPrograms

\* "" and " 1-"
Inputs == {<<>>, <<32, 49, 45>>}

MaxIters == {None} \cup {Some(n) : n \in 0..MaxIterArg}

\* println!("Program terminated by `max-iter`.")
MaxIterMessage ==
    <<80, 114, 111, 103, 114, 97, 109, 32, 116, 101, 114, 109, 105,
      110, 97, 116, 101, 100, 32, 98, 121, 32, 96, 109, 97, 120, 45, 105, 116, 101, 114, 96, 46, 10>>

\* the interpreter before `let mut ip = Interpreter::new()`
NoInterpreter ==
    [cur |-> <<>>, stack |-> <<>>, dp |-> "none", cc |-> "none",
     stdin |-> [is_eof |-> TRUE, stdin |-> <<>>]]

(***************************************************************************)
(* Command::new applied to every ordered pair of colored codels.           *)
(***************************************************************************)
CommandCalls == {<<"Command_new", from, to>> : from \in Colored, to \in Colored}

InitCommand ==
    /\ call \in CommandCalls
    /\ ret = None
    /\ pc = "call"
    /\ img = Image_new(<< <<"White">> >>)
    /\ max_iter = None
    /\ input = <<>>
    /\ ip = NoInterpreter
    /\ output = <<>>
    /\ num_iter = 0
    /\ i = 0
    /\ visited = {}
    /\ executed = <<>>

CallCommandNew ==
    /\ pc = "call"
    /\ call[1] = "Command_new"
    /\ ret' = Some(Command_new(call[2], call[3]))
    /\ pc' = "return"
    /\ UNCHANGED <<img, max_iter, input, ip, output, num_iter, i, visited, executed, call>>

NextCommand == CallCommandNew

SpecCommand == InitCommand /\ [][NextCommand]_vars

(***************************************************************************)
(* run (src/src/lib.rs)                                                    *)
(***************************************************************************)
Init ==
    /\ img \in {Image_new(m) : m \in Programs}
    /\ max_iter \in MaxIters
    /\ input \in Inputs
    /\ ip = NoInterpreter
    /\ output = <<>>
    /\ num_iter = 0
    /\ i = 0
    /\ visited = {}
    /\ pc = "start"
    /\ executed = <<>>
    /\ call = <<>>
    /\ ret = None

\* how run ends: Ok(()), the Err of line 34, the assert of line 42, and an
\* assert or unwrap() failing inside Command::execute
Ok == "Ok"

ErrTopLeftBlack == "Err: the top-left codel shall not be black"

PanicCurBlack == "panic: assertion failed: !cur_codel.is_black()"

PanicInCommand == "panic in Command::execute"

cur_codel == get_codel_at(img, ip.cur)

\* num_iter == args.max_iter.unwrap_or(usize::MAX); num_iter stays below
\* usize::MAX on every run followed
at_max_iter == max_iter # None /\ num_iter = max_iter[1]

\* lines 33-39: the test of the top-left codel and the construction of ip
Start ==
    /\ pc = "start"
    /\ IF is_black(get_codel_at(img, <<0, 0>>))
       THEN pc' = ErrTopLeftBlack /\ ip' = ip
       ELSE pc' = "loop" /\ ip' = Interpreter_new(input)
    /\ num_iter' = 0
    /\ UNCHANGED <<img, max_iter, input, output, i, visited, executed, call, ret>>

\* ColoredPass without the count of the pass
ColoredPass_uncounted ==
    /\ pc = "loop"
    /\ ~is_white(cur_codel)
    /\ IF is_black(cur_codel)
       THEN pc' = PanicCurBlack /\ UNCHANGED <<output, num_iter, i>>
       ELSE IF at_max_iter
       THEN /\ output' = output \o MaxIterMessage
            /\ pc' = Ok
            /\ UNCHANGED <<num_iter, i>>
       ELSE /\ num_iter < StepBound
            /\ num_iter' = num_iter
            /\ i' = 0
            /\ pc' = "try"
            /\ UNCHANGED output
    /\ UNCHANGED <<img, max_iter, input, ip, visited, executed, call, ret>>

\* lines 41-52: the top of the main loop on a colored codel
ColoredPass ==
    /\ pc = "loop"
    /\ ~is_white(cur_codel)
    /\ IF is_black(cur_codel)
       THEN pc' = PanicCurBlack /\ UNCHANGED <<output, num_iter, i>>
       ELSE IF at_max_iter
       THEN /\ output' = output \o MaxIterMessage
            /\ pc' = Ok
            /\ UNCHANGED <<num_iter, i>>
       ELSE /\ num_iter < StepBound
            /\ num_iter' = num_iter + 1
            /\ i' = 0
            /\ pc' = "try"
            /\ UNCHANGED output
    /\ UNCHANGED <<img, max_iter, input, ip, visited, executed, call, ret>>

\* blocked_try with the parity test inverted
blocked_try_odd_flips ==
    /\ ip' = IF i % 2 = 1 THEN [ip EXCEPT !.cc = flip(ip.cc)]
             ELSE [ip EXCEPT !.dp = turn_right(ip.dp)]
    /\ IF i = 8 - 1 THEN pc' = Ok /\ i' = i ELSE pc' = "try" /\ i' = i + 1

\* blocked_try with the flip and the turn taken in either order
blocked_try_either ==
    /\ \E flips \in BOOLEAN :
          ip' = IF flips THEN [ip EXCEPT !.cc = flip(ip.cc)]
                ELSE [ip EXCEPT !.dp = turn_right(ip.dp)]
    /\ IF i = 8 - 1 THEN pc' = Ok /\ i' = i ELSE pc' = "try" /\ i' = i + 1

\* the mutation of a failed try and the `return` of the last one
blocked_try ==
    /\ ip' = IF i % 2 = 0 THEN [ip EXCEPT !.cc = flip(ip.cc)]
             ELSE [ip EXCEPT !.dp = turn_right(ip.dp)]
    /\ IF i = 8 - 1 THEN pc' = Ok /\ i' = i ELSE pc' = "try" /\ i' = i + 1

\* lines 63-86: a try whose target is off the grid or Black
TryBlocked ==
    /\ pc = "try"
    /\ LET next_index == get_next_codel_index(img, ip.cur, ip.dp, ip.cc)
       IN  \/ next_index = None
           \/ next_index # None /\ is_black(get_codel_at(img, next_index[1]))
    /\ blocked_try
    /\ UNCHANGED <<img, max_iter, input, output, num_iter, visited, executed, call, ret>>

\* TryWhite taking White for one lightness step: a Push before the move
TryWhite_pushes ==
    /\ pc = "try"
    /\ LET next_index == get_next_codel_index(img, ip.cur, ip.dp, ip.cc)
       IN  /\ next_index # None
           /\ is_white(get_codel_at(img, next_index[1]))
           /\ ip' = [Execute("Push", ip, output, get_block_size_at(img, ip.cur)).ip
                       EXCEPT !.cur = next_index[1]]
    /\ pc' = "loop"
    /\ UNCHANGED <<img, max_iter, input, output, num_iter, i, visited, executed, call, ret>>

\* lines 63-91: a try whose target is White
TryWhite ==
    /\ pc = "try"
    /\ LET next_index == get_next_codel_index(img, ip.cur, ip.dp, ip.cc)
       IN  /\ next_index # None
           /\ is_white(get_codel_at(img, next_index[1]))
           /\ ip' = [ip EXCEPT !.cur = next_index[1]]
    /\ pc' = "loop"
    /\ UNCHANGED <<img, max_iter, input, output, num_iter, i, visited, executed, call, ret>>

\* TryCommand with the size of the block of the target
TryCommand_entered_size ==
    /\ pc = "try"
    /\ \E next_index \in {get_next_codel_index(img, ip.cur, ip.dp, ip.cc)} :
          /\ next_index # None
          /\ \E next_codel \in {get_codel_at(img, next_index[1])} :
                /\ ~is_black(next_codel)
                /\ ~is_white(next_codel)
                /\ \E command \in {Command_new(cur_codel, next_codel)},
                      block_size \in {get_block_size_at(img, next_index[1])} :
                      \E r \in {Execute(command, ip, output, block_size)} :
                          /\ executed' = Append(executed,
                                         [command |-> command, block_size |-> block_size,
                                          from |-> ip.cur, dp |-> ip.dp, cc |-> ip.cc])
                          /\ output' = r.out
                          /\ \E panic \in panics(r) :
                                IF panic
                                THEN pc' = PanicInCommand /\ ip' = r.ip
                                ELSE pc' = "loop" /\ ip' = [r.ip EXCEPT !.cur = next_index[1]]
    /\ UNCHANGED <<img, max_iter, input, num_iter, i, visited, call, ret>>

\* lines 63-99: a try whose target is colored
TryCommand ==
    /\ pc = "try"
    /\ \E next_index \in {get_next_codel_index(img, ip.cur, ip.dp, ip.cc)} :
          /\ next_index # None
          /\ \E next_codel \in {get_codel_at(img, next_index[1])} :
                /\ ~is_black(next_codel)
                /\ ~is_white(next_codel)
                /\ \E command \in {Command_new(cur_codel, next_codel)},
                      block_size \in {get_block_size_at(img, ip.cur)} :
                      \E r \in {Execute(command, ip, output, block_size)} :
                          /\ executed' = Append(executed,
                                         [command |-> command, block_size |-> block_size,
                                          from |-> ip.cur, dp |-> ip.dp, cc |-> ip.cc])
                          /\ output' = r.out
                          /\ \E panic \in panics(r) :
                                IF panic
                                THEN pc' = PanicInCommand /\ ip' = r.ip
                                ELSE pc' = "loop" /\ ip' = [r.ip EXCEPT !.cur = next_index[1]]
    /\ UNCHANGED <<img, max_iter, input, num_iter, i, visited, call, ret>>

\* WhiteEnter with one visited set for the whole run
WhiteEnter_keeps_visited ==
    /\ pc = "loop"
    /\ is_white(cur_codel)
    /\ visited' = visited
    /\ pc' = "white"
    /\ UNCHANGED <<img, max_iter, input, ip, output, num_iter, i, executed, call, ret>>

\* lines 41-43, 101-104: the top of the main loop on a White codel
WhiteEnter ==
    /\ pc = "loop"
    /\ is_white(cur_codel)
    /\ visited' = {}
    /\ pc' = "white"
    /\ UNCHANGED <<img, max_iter, input, ip, output, num_iter, i, executed, call, ret>>

\* lines 109-112: the cap is reached in the slide loop
WhiteCap ==
    /\ pc = "white"
    /\ at_max_iter
    /\ output' = output \o MaxIterMessage
    /\ pc' = Ok
    /\ UNCHANGED <<img, max_iter, input, ip, num_iter, i, visited, executed, call, ret>>

\* lines 109-119: the (position, DP) pair was seen in this episode
WhiteRepeat ==
    /\ pc = "white"
    /\ ~at_max_iter
    /\ num_iter < StepBound
    /\ num_iter' = num_iter + 1
    /\ <<ip.cur, ip.dp>> \in visited
    /\ pc' = Ok
    /\ UNCHANGED <<img, max_iter, input, ip, output, i, visited, executed, call, ret>>

\* WhiteBlocked with the pair recorded only by a step that moves
WhiteBlocked_unrecorded ==
    /\ pc = "white"
    /\ ~at_max_iter
    /\ num_iter < StepBound
    /\ num_iter' = num_iter + 1
    /\ <<ip.cur, ip.dp>> \notin visited
    /\ LET next_index == get_next_codel_index_in_dp_direction(img, ip.cur, ip.dp)
       IN  \/ next_index = None
           \/ next_index # None /\ is_black(get_codel_at(img, next_index[1]))
    /\ ip' = [ip EXCEPT !.cc = flip(ip.cc), !.dp = turn_right(ip.dp)]
    /\ pc' = "white"
    /\ UNCHANGED <<img, max_iter, input, output, i, visited, executed, call, ret>>

\* WhiteBlocked turning DP right or left as CC tells
WhiteBlocked_turns_by_cc ==
    /\ pc = "white"
    /\ ~at_max_iter
    /\ num_iter < StepBound
    /\ num_iter' = num_iter + 1
    /\ <<ip.cur, ip.dp>> \notin visited
    /\ visited' = visited \cup {<<ip.cur, ip.dp>>}
    /\ LET next_index == get_next_codel_index_in_dp_direction(img, ip.cur, ip.dp)
       IN  \/ next_index = None
           \/ next_index # None /\ is_black(get_codel_at(img, next_index[1]))
    /\ ip' = [ip EXCEPT !.cc = flip(ip.cc),
                        !.dp = IF ip.cc = "Left" THEN turn_right(ip.dp)
                               ELSE rotate_clockwise_by(ip.dp, 3)]
    /\ pc' = "white"
    /\ UNCHANGED <<img, max_iter, input, output, i, executed, call, ret>>

\* WhiteBlocked with DP turned and CC left alone
WhiteBlocked_turn_only ==
    /\ pc = "white"
    /\ ~at_max_iter
    /\ num_iter < StepBound
    /\ num_iter' = num_iter + 1
    /\ <<ip.cur, ip.dp>> \notin visited
    /\ visited' = visited \cup {<<ip.cur, ip.dp>>}
    /\ LET next_index == get_next_codel_index_in_dp_direction(img, ip.cur, ip.dp)
       IN  \/ next_index = None
           \/ next_index # None /\ is_black(get_codel_at(img, next_index[1]))
    /\ ip' = [ip EXCEPT !.dp = turn_right(ip.dp)]
    /\ pc' = "white"
    /\ UNCHANGED <<img, max_iter, input, output, i, executed, call, ret>>

\* lines 109-133: a slide step whose neighbour is off the grid or Black
WhiteBlocked ==
    /\ pc = "white"
    /\ ~at_max_iter
    /\ num_iter < StepBound
    /\ num_iter' = num_iter + 1
    /\ <<ip.cur, ip.dp>> \notin visited
    /\ visited' = visited \cup {<<ip.cur, ip.dp>>}
    /\ LET next_index == get_next_codel_index_in_dp_direction(img, ip.cur, ip.dp)
       IN  \/ next_index = None
           \/ next_index # None /\ is_black(get_codel_at(img, next_index[1]))
    /\ ip' = [ip EXCEPT !.cc = flip(ip.cc), !.dp = turn_right(ip.dp)]
    /\ pc' = "white"
    /\ UNCHANGED <<img, max_iter, input, output, i, executed, call, ret>>

\* WhiteMove that records no pair
WhiteMove_unrecorded ==
    /\ pc = "white"
    /\ ~at_max_iter
    /\ num_iter < StepBound
    /\ num_iter' = num_iter + 1
    /\ <<ip.cur, ip.dp>> \notin visited
    /\ LET next_index == get_next_codel_index_in_dp_direction(img, ip.cur, ip.dp)
       IN  /\ next_index # None
           /\ LET next_codel == get_codel_at(img, next_index[1])
              IN  /\ ~is_black(next_codel)
                  /\ ip' = [ip EXCEPT !.cur = next_index[1]]
                  /\ pc' = IF is_white(next_codel) THEN "white" ELSE "loop"
    /\ UNCHANGED <<img, max_iter, input, output, i, visited, executed, call, ret>>

\* WhiteMove without the test of a Black neighbour
WhiteMove_no_black_test ==
    /\ pc = "white"
    /\ ~at_max_iter
    /\ num_iter < StepBound
    /\ num_iter' = num_iter + 1
    /\ <<ip.cur, ip.dp>> \notin visited
    /\ visited' = visited \cup {<<ip.cur, ip.dp>>}
    /\ LET next_index == get_next_codel_index_in_dp_direction(img, ip.cur, ip.dp)
       IN  /\ next_index # None
           /\ LET next_codel == get_codel_at(img, next_index[1])
              IN  /\ ip' = [ip EXCEPT !.cur = next_index[1]]
                  /\ pc' = IF is_white(next_codel) THEN "white" ELSE "loop"
    /\ UNCHANGED <<img, max_iter, input, output, i, executed, call, ret>>

\* lines 109-144: a slide step onto a White or colored neighbour
WhiteMove ==
    /\ pc = "white"
    /\ ~at_max_iter
    /\ num_iter < StepBound
    /\ num_iter' = num_iter + 1
    /\ <<ip.cur, ip.dp>> \notin visited
    /\ visited' = visited \cup {<<ip.cur, ip.dp>>}
    /\ LET next_index == get_next_codel_index_in_dp_direction(img, ip.cur, ip.dp)
       IN  /\ next_index # None
           /\ LET next_codel == get_codel_at(img, next_index[1])
              IN  /\ ~is_black(next_codel)
                  /\ ip' = [ip EXCEPT !.cur = next_index[1]]
                  /\ pc' = IF is_white(next_codel) THEN "white" ELSE "loop"
    /\ UNCHANGED <<img, max_iter, input, output, i, executed, call, ret>>

Next ==
    \/ Start
    \/ ColoredPass
    \/ TryBlocked
    \/ TryWhite
    \/ TryCommand
    \/ WhiteEnter
    \/ WhiteCap
    \/ WhiteRepeat
    \/ WhiteBlocked
    \/ WhiteMove

Spec == Init /\ [][Next]_vars

(***************************************************************************)
(* Two runs of run (src/src/lib.rs) on the same image, input and cap: a   *)
(* run is halted in any state, takes one step, and a second run of the    *)
(* same build takes its step from the same state.                         *)
(***************************************************************************)
\* what run holds: the arguments, the interpreter, the output written, the
\* counters, the position in the code and the commands executed
walk == <<img, max_iter, input, ip, output, num_iter, i, visited, pc, executed>>

\* the command about to execute overflows without panicking in every build:
\* the only step whose outcome depends on the build
overflows ==
    /\ pc = "try"
    /\ \E next_index \in {get_next_codel_index(img, ip.cur, ip.dp, ip.cc)} :
          /\ next_index # None
          /\ \E next_codel \in {get_codel_at(img, next_index[1])} :
                /\ ~is_black(next_codel)
                /\ ~is_white(next_codel)
                /\ \E r \in {Execute(Command_new(cur_codel, next_codel), ip, output,
                                     get_block_size_at(img, ip.cur))} :
                      r.overflow /\ ~r.panic

\* the state of the first run is kept
Halt ==
    /\ call = <<>>
    /\ call' = <<"first", walk>>
    /\ UNCHANGED <<img, max_iter, input, ip, output, num_iter, i, visited, pc,
                   executed, ret>>

\* the first run takes one step of the loop from the state kept
StepFirst ==
    /\ call # <<>>
    /\ call[1] = "first"
    /\ walk = call[2]
    /\ Next

\* the outcome of the first run is kept and the second run is put in the
\* state the first one started from
Rerun ==
    /\ call # <<>>
    /\ call[1] = "first"
    /\ walk # call[2]
    /\ ret' = Some(walk)
    /\ call' = <<"second", call[2]>>
    /\ img' = call[2][1]
    /\ max_iter' = call[2][2]
    /\ input' = call[2][3]
    /\ ip' = call[2][4]
    /\ output' = call[2][5]
    /\ num_iter' = call[2][6]
    /\ i' = call[2][7]
    /\ visited' = call[2][8]
    /\ pc' = call[2][9]
    /\ executed' = call[2][10]

\* the second run takes its step; it is a run of the same build, so an
\* overflow panics in it exactly if it did in the first run
StepSecond ==
    /\ call # <<>>
    /\ call[1] = "second"
    /\ walk = call[2]
    /\ Next
    /\ overflows => ((pc' = PanicInCommand) <=> (ret[1][9] = PanicInCommand))

\* a run that is not halted
StepAlone == call = <<>> /\ Next

NextTwoRuns ==
    \/ StepAlone
    \/ Halt
    \/ StepFirst
    \/ Rerun
    \/ StepSecond

SpecTwoRuns == Init /\ [][NextTwoRuns]_vars

\* run is one sequential loop: it always takes its next step
FairSpec == Spec /\ WF_vars(Next)

(***************************************************************************)
(* Command::execute applied to interpreters with given stacks, and Roll     *)
(* applied twice, with opposite numbers of rolls.                          *)
(***************************************************************************)
\* values of the stack: the ends of the type, the ends of the range of char and
\* of the surrogates, and small values of both signs
ExecValues ==
    {ISIZE_MIN, ISIZE_MIN + 1, 0 - 7, 0 - 5, 0 - 3, 0 - 1, 0, 1, 2, 3, 7, 65,
     55295, 55296, 57343, 57344, CHAR_MAX, CHAR_MAX + 1, ISIZE_MAX}

\* the stacks: up to two values, on nothing or on one more value
ExecStacks ==
    {below \o top : below \in {<<>>, <<5>>},
                    top \in {<<>>} \cup {<<x>> : x \in ExecValues}
                              \cup {<<y, x>> : y \in ExecValues, x \in ExecValues}}

ExecInputs == {<<>>, <<55, 10>>}

ExecuteCalls ==
    {<<"execute", command, 3,
       [Interpreter_new_with_stdin(bytes) EXCEPT !.stack = stack, !.dp = dp, !.cc = cc]>> :
        command \in Commands, stack \in ExecStacks, dp \in {"Right", "Up"}, cc \in CC,
        bytes \in ExecInputs}

RollStacks == {<<>>, <<1>>, <<1, 2>>, <<1, 2, 3>>, <<1, 2, 3, 4>>, <<6, 5, 5, 6>>}

RollDepths == {ISIZE_MIN, 0 - 1, 0, 1, 2, 3, 4, 5, ISIZE_MAX}

RollCounts == {ISIZE_MIN, ISIZE_MIN + 1, ISIZE_MAX - 1, ISIZE_MAX} \cup ((0 - 9)..9)

RollCalls ==
    {<<"roll", stack, depth, num_roll>> :
        stack \in RollStacks, depth \in RollDepths, num_roll \in RollCounts}

InitExecute ==
    /\ call \in ExecuteCalls \cup RollCalls
    /\ ret = None
    /\ pc = "call"
    /\ img = Image_new(<< <<"White">> >>)
    /\ max_iter = None
    /\ input = <<>>
    /\ ip = NoInterpreter
    /\ output = <<>>
    /\ num_iter = 0
    /\ i = 0
    /\ visited = {}
    /\ executed = <<>>

\* the end of a call of execute with result r
Return(r, to) ==
    /\ ip' = r.ip
    /\ output' = r.out
    /\ \E panic \in panics(r) : pc' = IF panic THEN PanicInCommand ELSE to

\* `command.execute(&mut ip, block_size)`
CallExecute ==
    /\ pc = "call"
    /\ call[1] = "execute"
    /\ \E r \in {Execute(call[2], call[4], output, call[3])} : Return(r, "return")
    /\ UNCHANGED <<img, max_iter, input, num_iter, i, visited, executed, call, ret>>

\* depth and num_roll are pushed and Roll is executed; ret keeps the stack it
\* leaves
RollForth ==
    /\ pc = "call"
    /\ call[1] = "roll"
    /\ \E r \in {Execute("Roll",
                          [Interpreter_new_with_stdin(<<>>)
                              EXCEPT !.stack = call[2] \o <<call[3], call[4]>>],
                          output, 1)} :
          /\ Return(r, "rolled")
          /\ ret' = Some(r.ip.stack)
    /\ UNCHANGED <<img, max_iter, input, num_iter, i, visited, executed, call>>

\* depth and -num_roll are pushed and Roll is executed again
RollBack ==
    /\ pc = "rolled"
    /\ call[4] # ISIZE_MIN
    /\ \E r \in {Execute("Roll",
                          [ip EXCEPT !.stack = ip.stack \o <<call[3], 0 - call[4]>>],
                          output, 1)} :
          Return(r, "return")
    /\ UNCHANGED <<img, max_iter, input, num_iter, i, visited, executed, call, ret>>

NextExecute == CallExecute \/ RollForth \/ RollBack

SpecExecute == InitExecute /\ [][NextExecute]_vars

\* run and the calls of execute side by side: the engine from both of its
\* entries
InitEngine == Init \/ InitExecute

NextEngine == Next \/ NextExecute

SpecEngine == InitEngine /\ [][NextEngine]_vars

(***************************************************************************)
(* InNumber and InChar executed one after the other on one interpreter.    *)
(* input is the text the reader was built on, executed the commands so     *)
(* far.                                                                    *)
(***************************************************************************)
\* the number of reads of a run
MaxReads == 4

\* "", "  ", "-100 abc 100", "a20", "-1", "+5\n99999999 x", U+00E9 " 7",
\* " he llo"
StdinInputs ==
    {<<>>,
     <<32, 32>>,
     <<45, 49, 48, 48, 32, 97, 98, 99, 32, 49, 48, 48>>,
     <<97, 50, 48>>,
     <<45, 49>>,
     <<43, 53, 10, 57, 57, 57, 57, 57, 57, 57, 57, 32, 120>>,
     <<195, 169, 32, 55>>,
     <<32, 104, 101, 32, 108, 108, 111>>}

\* what the stream delivers after an end of input: "7", "x 3"
Arrivals == {<<55>>, <<120, 32, 51>>}

InitStdin ==
    /\ input \in StdinInputs
    /\ ip = Interpreter_new_with_stdin(input)
    /\ pc = "stdin"
    /\ call = <<"stdin">>
    /\ ret = None
    /\ img = Image_new(<< <<"White">> >>)
    /\ max_iter = None
    /\ output = <<>>
    /\ num_iter = 0
    /\ i = 0
    /\ visited = {}
    /\ executed = <<>>

\* `command.execute(&mut ip, 1)` for one of the two reading commands
CallRead(command) ==
    /\ pc = "stdin"
    /\ Len(executed) < MaxReads
    /\ executed' = Append(executed, [command |-> command, block_size |-> 1,
                                     from |-> ip.cur, dp |-> ip.dp, cc |-> ip.cc])
    /\ \E r \in {Execute(command, ip, output, 1)} : Return(r, "stdin")
    /\ UNCHANGED <<img, max_iter, input, num_iter, i, visited, call, ret>>

CallInNumber == CallRead("InNumber")

CallInChar == CallRead("InChar")

\* the stream behind the reader (io::stdin()) delivers bytes after an end of
\* input (a terminal after an end-of-file key)
Arrive ==
    /\ pc = "stdin"
    /\ Len(executed) < MaxReads
    /\ ip.stdin.is_eof
    /\ ip.stdin.stdin = <<>>
    /\ \E bytes \in Arrivals : ip' = [ip EXCEPT !.stdin.stdin = bytes]
    /\ UNCHANGED <<img, max_iter, input, output, num_iter, i, visited, pc, executed,
                   call, ret>>

NextStdin == CallInNumber \/ CallInChar \/ Arrive

SpecStdin == InitStdin /\ [][NextStdin]_vars

(***************************************************************************)
(* Block::new and get_corner_index on sets of coordinates, and Image's     *)
(* block index on grids of codels.                                         *)
(***************************************************************************)
\* the sets and the grids lie in BlockRows x BlockCols coordinates
BlockRows == 3

BlockCols == 2

\* the non-empty sets of coordinates of rows x cols a block is built from
CoordinateSets(rows, cols) == SUBSET ((0..(rows - 1)) \X (0..(cols - 1))) \ {{}}

\* the grids of height x width cells of the given values
GridsOf(height, width, values) == [1..height -> [1..width -> values]]

InitBlock ==
    /\ call \in {<<"block", s>> : s \in CoordinateSets(BlockRows, BlockCols)}
               \cup {<<"image", m>> : m \in GridsOf(BlockRows, BlockCols, {"Red", "White"})}
    /\ ret = None
    /\ pc = "call"
    /\ img = Image_new(<< <<"White">> >>)
    /\ max_iter = None
    /\ input = <<>>
    /\ ip = NoInterpreter
    /\ output = <<>>
    /\ num_iter = 0
    /\ i = 0
    /\ visited = {}
    /\ executed = <<>>

\* `Block::new(&s)`
CallBlockNew ==
    /\ pc = "call"
    /\ call[1] = "block"
    /\ ret' = Some(Block_new(call[2]))
    /\ pc' = "built"
    /\ UNCHANGED <<img, max_iter, input, ip, output, num_iter, i, visited, executed, call>>

\* `block.get_corner_index(&dp, &cc)`: ret becomes <<block, dp, cc, corner>>
CallGetCornerIndex ==
    /\ pc = "built"
    /\ \E dp \in DP, cc \in CC :
          ret' = <<ret[1], dp, cc, get_corner_index(ret[1], dp, cc)>>
    /\ pc' = "corner"
    /\ UNCHANGED <<img, max_iter, input, ip, output, num_iter, i, visited, executed, call>>

\* the block index of a grid of codels is built
CallCreateBlockMap ==
    /\ pc = "call"
    /\ call[1] = "image"
    /\ img' = Image_new(call[2])
    /\ pc' = "indexed"
    /\ UNCHANGED <<max_iter, input, ip, output, num_iter, i, visited, executed, call, ret>>

NextBlock == CallBlockNew \/ CallGetCornerIndex \/ CallCreateBlockMap

SpecBlock == InitBlock /\ [][NextBlock]_vars

(***************************************************************************)
(* Codel::new on pixels and Image::new on grids of pixels.                 *)
(***************************************************************************)
\* the values a component of a pixel is drawn from
Components == {0, 1, 128, 191, 192, 193, 254, 255}

\* Red, White and a pixel that is no codel
PixelValues == {<<255, 0, 0>>, <<255, 255, 255>>, <<255, 0, 1>>}

\* <<height, width>> of the grids of pixels of the three values
PixelShapes == {<<1, 1>>, <<2, 2>>, <<2, 4>>, <<3, 2>>}

\* the grids of 4 x 4 pixels of Red and White whose first pixel is Red
LargePixelGrids(side) ==
    {g \in GridsOf(side, side, {<<255, 0, 0>>, <<255, 255, 255>>}) : g[1][1] = <<255, 0, 0>>}

InitPixels ==
    /\ call \in {<<"codel", p>> : p \in Components \X Components \X Components}
               \cup {<<"image", pixels>> :
                        pixels \in UNION {GridsOf(sh[1], sh[2], PixelValues) : sh \in PixelShapes}}
               \cup {<<"image", pixels>> : pixels \in LargePixelGrids(4)}
    /\ ret = None
    /\ pc = "call"
    /\ img = Image_new(<< <<"White">> >>)
    /\ max_iter = None
    /\ input = <<>>
    /\ ip = NoInterpreter
    /\ output = <<>>
    /\ num_iter = 0
    /\ i = 0
    /\ visited = {}
    /\ executed = <<>>

\* `Codel::new(&p)`
CallCodelNew ==
    /\ pc = "call"
    /\ call[1] = "codel"
    /\ ret' = Some(Codel_new(call[2]))
    /\ pc' = "codel"
    /\ UNCHANGED <<img, max_iter, input, ip, output, num_iter, i, visited, executed, call>>

\* `Image::new(file)` once the file is decoded: ret keeps the codel size
\* detected and the error returned, img the image when there is one
CallImageNew ==
    /\ pc = "call"
    /\ call[1] = "image"
    /\ \E r \in {Image_new_pixels(call[2])} :
          /\ pc' = IF r.ok THEN "image" ELSE "error"
          /\ img' = IF r.ok THEN r.image ELSE img
          /\ ret' = [codel_size |-> detect_codel_size(call[2]), err |-> r.err]
    /\ UNCHANGED <<max_iter, input, ip, output, num_iter, i, visited, executed, call>>

NextPixels == CallCodelNew \/ CallImageNew

SpecPixels == InitPixels /\ [][NextPixels]_vars

(***************************************************************************)
(* The vocabulary of the properties, defined from the grid alone.          *)
(***************************************************************************)
H == Height(img.m)

W == Width(img.m)

Grid == {<<a, b>> : a \in 0..(H - 1), b \in 0..(W - 1)}

At(c) == img.m[c[1] + 1][c[2] + 1]

Running == pc \in {"loop", "try", "white"}

Ended == pc \in {Ok, ErrTopLeftBlack, PanicCurBlack, PanicInCommand}

Adjacent(a, b) ==
    \/ a[1] = b[1] /\ (a[2] = b[2] + 1 \/ b[2] = a[2] + 1)
    \/ a[2] = b[2] /\ (a[1] = b[1] + 1 \/ b[1] = a[1] + 1)

RECURSIVE Grow(_)
Grow(S) ==
    LET T == S \cup {d \in Grid : \E e \in S : Adjacent(d, e) /\ At(d) = At(e)}
    IN  IF T = S THEN S ELSE Grow(T)

\* the maximal 4-connected region of one codel that holds c
BlockOf(c) == Grow({c})

Clockwise(dp) ==
    CASE dp = "Right" -> "Down" [] dp = "Down" -> "Left"
      [] dp = "Left" -> "Up" [] dp = "Up" -> "Right"

Other(cc) == IF cc = "Left" THEN "Right" ELSE "Left"

Step(c, dp) ==
    CASE dp = "Right" -> <<c[1], c[2] + 1>>
      [] dp = "Down" -> <<c[1] + 1, c[2]>>
      [] dp = "Left" -> <<c[1], c[2] - 1>>
      [] dp = "Up" -> <<c[1] - 1, c[2]>>

\* the exit corner of the table of corners: the extreme row or column in
\* direction dp, and on it the codel cc chooses
Corner(B, dp, cc) ==
    LET maxcol == {c \in B : \A d \in B : d[2] <= c[2]}
        maxrow == {c \in B : \A d \in B : d[1] <= c[1]}
        mincol == {c \in B : \A d \in B : d[2] >= c[2]}
        minrow == {c \in B : \A d \in B : d[1] >= c[1]}
        Top(E) == CHOOSE c \in E : \A d \in E : c[1] <= d[1]
        Bottom(E) == CHOOSE c \in E : \A d \in E : c[1] >= d[1]
        Leftmost(E) == CHOOSE c \in E : \A d \in E : c[2] <= d[2]
        Rightmost(E) == CHOOSE c \in E : \A d \in E : c[2] >= d[2]
    IN  CASE dp = "Right" -> IF cc = "Left" THEN Top(maxcol) ELSE Bottom(maxcol)
          [] dp = "Down" -> IF cc = "Left" THEN Rightmost(maxrow) ELSE Leftmost(maxrow)
          [] dp = "Left" -> IF cc = "Left" THEN Bottom(mincol) ELSE Top(mincol)
          [] dp = "Up" -> IF cc = "Left" THEN Leftmost(minrow) ELSE Rightmost(minrow)

\* the cell a try from c aims at
Target(c, dp, cc) == Step(Corner(BlockOf(c), dp, cc), dp)

Blocked(c) == c \notin Grid \/ At(c) = "Black"

\* C1: once execution has begun, the position is inside the grid and not on a
\* Black codel, and the assertion at the top of the main loop never fails.
C1_PositionInGridNotBlack ==
    /\ pc # PanicCurBlack
    /\ pc \notin {"start", ErrTopLeftBlack} =>
          /\ 0 <= ip.cur[1] /\ ip.cur[1] < H
          /\ 0 <= ip.cur[2] /\ ip.cur[2] < W
          /\ At(ip.cur) # "Black"

\* a command has run and the walker, off the top-left codel, slides on White
C1_Witness ==
    /\ pc = "white"
    /\ executed # <<>>
    /\ visited # {}
    /\ ip.cur # <<0, 0>>
    /\ \E c \in Grid : At(c) = "Black"

\* the (0-based) index of try i is even
Even(n) == n % 2 = 0

PaletteTable ==
    << <<"LightRed", "LightYellow", "LightGreen", "LightCyan", "LightBlue", "LightMagenta">>,
       <<"Red", "Yellow", "Green", "Cyan", "Blue", "Magenta">>,
       <<"DarkRed", "DarkYellow", "DarkGreen", "DarkCyan", "DarkBlue", "DarkMagenta">> >>

HueOf(c) == CHOOSE h \in 0..5 : \E l \in 0..2 : PaletteTable[l + 1][h + 1] = c

LightnessOf(c) == CHOOSE l \in 0..2 : \E h \in 0..5 : PaletteTable[l + 1][h + 1] = c

\* the table of commands: rows are hue steps 0..5, columns lightness steps 0..2
CommandTable ==
    << <<"none", "Push", "Pop">>,
       <<"Add", "Subtract", "Multiply">>,
       <<"Divide", "Mod", "Not">>,
       <<"Greater", "Pointer", "Switch">>,
       <<"Duplicate", "Roll", "InNumber">>,
       <<"InChar", "OutNumber", "OutChar">> >>

TableCommand(from, to) ==
    CommandTable[((HueOf(to) - HueOf(from)) % 6) + 1]
                [((LightnessOf(to) - LightnessOf(from)) % 3) + 1]

\* C3: a try of the colored regime whose target is a colored codel executes
\* exactly one command, the one of the table for (current codel, target
\* codel), with the size of the block being left, and then moves to the
\* target, which is the one computed from DP and CC before the command ran.
C3_ColoredExit ==
    [][(/\ pc = "try"
        /\ Target(ip.cur, ip.dp, ip.cc) \in Grid
        /\ At(Target(ip.cur, ip.dp, ip.cc)) \in Colored) =>
            LET t == Target(ip.cur, ip.dp, ip.cc)
                cmd == TableCommand(At(ip.cur), At(t))
                size == Cardinality(BlockOf(ip.cur))
                r == Execute(cmd, ip, output, size)
            IN  /\ executed' = Append(executed,
                                      [command |-> cmd, block_size |-> size,
                                       from |-> ip.cur, dp |-> ip.dp, cc |-> ip.cc])
                /\ output' = r.out
                /\ \/ TRUE \in panics(r) /\ pc' = PanicInCommand
                   \/ ~r.panic /\ ip' = [r.ip EXCEPT !.cur = t] /\ pc' = "loop"
      ]_vars

\* a Pointer has just turned DP, and the walker stands on the target of the
\* old DP, which is not the target of the new one
C3_Witness ==
    /\ pc = "loop"
    /\ executed # <<>>
    /\ LET e == executed[Len(executed)]
       IN  /\ e.command = "Pointer"
           /\ ip.dp # e.dp
           /\ ip.cur = Target(e.from, e.dp, e.cc)
           /\ Target(e.from, ip.dp, ip.cc) # ip.cur
           /\ Cardinality(BlockOf(e.from)) > 1

\* C4: a move onto a White codel, a slide step and a move off a White codel
\* execute no command: stack, input and output are as before, and a step that
\* changes the position leaves DP and CC alone.
C4_NoCommandAroundWhite ==
    [][(/\ pc # "start"
        /\ ip' # ip
        /\ (At(ip.cur) = "White" \/ At(ip'.cur) = "White")) =>
            /\ ip'.stack = ip.stack
            /\ ip'.stdin = ip.stdin
            /\ output' = output
            /\ executed' = executed
            /\ ip'.cur # ip.cur => (ip'.dp = ip.dp /\ ip'.cc = ip.cc)
      ]_vars

\* a slide has left the white region for a colored codel, after a command had
\* filled the stack
C4_Witness ==
    /\ pc = "loop"
    /\ At(ip.cur) \in Colored
    /\ visited # {}
    /\ \E p \in visited : Step(p[1], p[2]) = ip.cur /\ p[2] = ip.dp
    /\ ip.stack # <<>>
    /\ executed # <<>>

\* the steps of the white regime about the visited set, for the states in P
WhiteVisits(P) ==
    /\ (pc = "white" /\ P) =>
          /\ pc' = Ok <=> <<ip.cur, ip.dp>> \in visited
          /\ <<ip.cur, ip.dp>> \notin visited =>
                visited' = visited \cup {<<ip.cur, ip.dp>>}
          /\ <<ip.cur, ip.dp>> \in visited => output' = output
    /\ (pc = "loop" /\ pc' = "white") => visited' = {}

\* C5 as stated: in the white regime the run ends exactly when the current
\* (position, DP) pair is already in the episode's visited set, and records
\* the pair otherwise.
C5_Original == [][WhiteVisits(TRUE)]_vars

\* C5: in the white regime, unless the iteration cap has been reached, the
\* run ends exactly when the current (position, DP) pair was recorded earlier
\* in the same episode; otherwise the pair is recorded by the step, blocked
\* or not.  Each episode starts with an empty record.
C5_VisitedRepeat == [][WhiteVisits(~at_max_iter)]_vars

\* a slide that ended on a repeated pair, having recorded a blocked step
C5_Witness ==
    /\ pc = Ok
    /\ At(ip.cur) = "White"
    /\ ~at_max_iter
    /\ <<ip.cur, ip.dp>> \in visited
    /\ \E p \in visited : Blocked(Step(p[1], p[2]))

\* C6: a step of the white regime whose DP neighbour is off the grid or Black
\* flips CC and turns DP right and stays in place; any other step moves to the
\* DP neighbour of the position and leaves DP and CC alone.
C6_WhiteStep ==
    [][(pc = "white" /\ pc' # Ok) =>
            IF Blocked(Step(ip.cur, ip.dp))
            THEN ip' = [ip EXCEPT !.cc = Other(ip.cc), !.dp = Clockwise(ip.dp)]
            ELSE ip' = [ip EXCEPT !.cur = Step(ip.cur, ip.dp)]
      ]_vars

\* a slide has stepped inside a white block, not to the cell past its exit
\* corner, and has also met a blocked step
C6_Witness ==
    /\ pc \in {"white", "loop"}
    /\ \E p \in visited :
          /\ ip.cur = Step(p[1], p[2])
          /\ ip.dp = p[2]
          /\ \A cc \in CC : Target(p[1], p[2], cc) # ip.cur
    /\ \E p \in visited : Blocked(Step(p[1], p[2]))

\* the steps of run about the iteration count and the cap
CapStep ==
    /\ num_iter' # num_iter =>
          /\ num_iter' = num_iter + 1
          /\ (pc = "loop" /\ pc' = "try") \/ (pc = "white" /\ ~at_max_iter)
    /\ (pc = "loop" /\ pc' = "try") => num_iter' = num_iter + 1
    /\ (pc = "white" /\ ~at_max_iter) => num_iter' = num_iter + 1
    /\ (at_max_iter /\ pc \in {"loop", "white"}) =>
          /\ ip' = ip
          /\ executed' = executed
          /\ \/ pc' = Ok /\ output' = output \o MaxIterMessage
             \/ pc = "loop" /\ At(ip.cur) = "White" /\ pc' = "white" /\ output' = output

\* C7: with a cap n, run counts one iteration per colored pass and one per
\* step of the slide loop, never counts past n, halts with Ok at the first
\* test of the cap once n are counted, executes at most n commands, and always
\* terminates; with n = 0 the walker never leaves its initial state.
C7_MaxIter ==
    /\ [](max_iter # None =>
            /\ num_iter <= max_iter[1]
            /\ Len(executed) <= num_iter
            /\ (max_iter[1] = 0 /\ pc \notin {"start", ErrTopLeftBlack}) =>
                  /\ executed = <<>>
                  /\ pc # "try"
                  /\ visited = {}
                  /\ ip = [cur |-> <<0, 0>>, stack |-> <<>>, dp |-> "Right", cc |-> "Left",
                           stdin |-> ip.stdin])
    /\ [][CapStep]_vars
    /\ (max_iter # None => <>Ended)

\* a run with cap 2 that executed two commands and was halted by the cap
C7_Witness ==
    /\ pc = Ok
    /\ max_iter = Some(2)
    /\ num_iter = 2
    /\ Len(executed) = 2
    /\ Len(output) >= Len(MaxIterMessage)

\* C8: when the codel at (0,0) is Black, run ends with the error about the
\* top-left codel before the interpreter is built: no command is executed,
\* nothing is read and nothing is written.
C8_TopLeftBlack ==
    At(<<0, 0>>) = "Black" =>
        /\ pc \in {"start", ErrTopLeftBlack}
        /\ executed = <<>>
        /\ output = <<>>
        /\ ip = NoInterpreter
        /\ num_iter = 0

\* the error has been returned, with input waiting
C8_Witness ==
    /\ pc = ErrTopLeftBlack
    /\ input # <<>>
    /\ \E c \in Grid : At(c) \in Colored

\* the state the spec gives to a new interpreter reading s
InitialState(s) ==
    [cur |-> <<0, 0>>, stack |-> <<>>, dp |-> "Right", cc |-> "Left",
     stdin |-> [stdin |-> s, is_eof |-> FALSE]]

\* C9: execution starts at (0,0) with an empty stack, DP = Right, CC = Left
\* and a reader not at EOF, and Interpreter::new_with_stdin builds this same
\* state.
C9_InitialState ==
    (pc = "loop" /\ num_iter = 0) =>
        /\ ip = InitialState(input)
        /\ Interpreter_new_with_stdin(input) = ip

\* execution is about to begin, with input to read
C9_Witness ==
    /\ pc = "loop"
    /\ num_iter = 0
    /\ input # <<>>
    /\ ~ip.stdin.is_eof

\* C10: for two colored codels that differ, Command::new returns the entry of
\* the command table in row hue step, column lightness step; and for a fixed
\* first codel the 17 other colored codels give the 17 commands, each once.
C10_CommandTable ==
    (pc = "return" /\ call[1] = "Command_new" /\ call[2] # call[3]) =>
        /\ ret = Some(TableCommand(call[2], call[3]))
        /\ LET others == Colored \ {call[2]}
               image == {Command_new(call[2], to) : to \in others}
           IN  /\ Cardinality(others) = 17
               /\ image = Commands
               /\ Cardinality(image) = 17

\* a pair whose hue step wraps from Magenta to Red and whose lightness step
\* wraps from Dark to Light
C10_Witness ==
    /\ pc = "return"
    /\ call = <<"Command_new", "DarkMagenta", "LightRed">>
    /\ ret = Some("Subtract")

\* C11: a Push pushes the number of codels of the block that holds the
\* position before the move, which is at least 1, whatever the size of the
\* block that is entered.
C11_PushBlockLeft ==
    [][(/\ pc = "try"
        /\ ip'.cur # ip.cur
        /\ At(ip'.cur) \in Colored
        /\ TableCommand(At(ip.cur), At(ip'.cur)) = "Push") =>
            /\ ip'.stack = Append(ip.stack, Cardinality(BlockOf(ip.cur)))
            /\ Cardinality(BlockOf(ip.cur)) >= 1
            /\ executed'[Len(executed')].block_size = Cardinality(BlockOf(ip.cur))
      ]_vars

\* a Push has left a block of several codels for a block of another size
C11_Witness ==
    /\ pc = "loop"
    /\ executed # <<>>
    /\ LET e == executed[Len(executed)]
       IN  /\ e.command = "Push"
           /\ ip.stack # <<>>
           /\ ip.stack[Len(ip.stack)] = Cardinality(BlockOf(e.from))
           /\ Cardinality(BlockOf(e.from)) > 1
           /\ Cardinality(BlockOf(ip.cur)) # Cardinality(BlockOf(e.from))

\* the commands that need one value and those that need two
Unary == {"Pop", "Not", "Pointer", "Switch", "Duplicate", "OutNumber", "OutChar"}

Binary == {"Add", "Subtract", "Multiply", "Divide", "Mod", "Greater", "Roll"}

\* the operand precondition of the command fails on the stack
PreconditionFails(command, stack) ==
    \/ command \in Unary /\ stack = <<>>
    \/ command \in Binary /\ Len(stack) < 2
    \/ command \in {"Divide", "Mod"} /\ Len(stack) >= 2 /\ stack[Len(stack)] = 0

\* C12: a command whose operand precondition fails (too few values, or a zero
\* divisor) returns and leaves the stack, DP, CC, the reader and the output as
\* they were.
C12_FailedPreconditionNoOp ==
    (pc # "call" /\ call[1] = "execute" /\ PreconditionFails(call[2], call[4].stack)) =>
        /\ pc = "return"
        /\ ip = call[4]
        /\ output = <<>>

\* Divide has met a zero divisor above two more values
C12_Witness ==
    /\ pc = "return"
    /\ call[1] = "execute"
    /\ call[2] = "Divide"
    /\ call[4].stack = <<5, 7, 0>>
    /\ ip.stack = <<5, 7, 0>>

\* the argument of a call of execute: its command and its stack, and the top
\* value x and the second value y of that stack
Cmd == call[2]

Stack == call[4].stack

X == Stack[Len(Stack)]

Y == Stack[Len(Stack) - 1]

Executed(command) == pc # "call" /\ call[1] = "execute" /\ Cmd = command

\* the stack without its n top values, with v pushed
Replaced(n, v) == Append(SubSeq(Stack, 1, Len(Stack) - n), v)

\* a Unicode scalar value: a code point that is not a surrogate
IsScalar(x) == 0 <= x /\ x <= 1114111 /\ ~(55296 <= x /\ x <= 57343)

\* C13: OutChar pops the top and writes its UTF-8 encoding when the top is a
\* Unicode scalar value; when it is not (negative, above 0x10FFFF or a
\* surrogate) OutChar returns with the stack and the output unchanged.
C13_OutCharScalar ==
    (Executed("OutChar") /\ Stack # <<>>) =>
        /\ pc = "return"
        /\ IF IsScalar(X)
           THEN /\ ip = [call[4] EXCEPT !.stack = SubSeq(Stack, 1, Len(Stack) - 1)]
                /\ output = utf8_encode(X)
           ELSE /\ ip = call[4]
                /\ output = <<>>

\* C14: execute returns for every command and every stack: no call ends in a
\* panic.
C14_NoPanic ==
    (pc # "call" /\ call[1] \in {"execute", "roll"}) => pc # PanicInCommand

\* the quotient of y by x # 0 truncated toward zero
TruncQuot(y, x) ==
    IF (y < 0) = (x < 0) THEN abs(y) \div abs(x) ELSE 0 - (abs(y) \div abs(x))

\* y - floor(y / x) * x for x # 0
FlooredMod(y, x) == IF x > 0 THEN y % x ELSE 0 - ((0 - y) % (0 - x))

\* r is the product of x and y
IsProduct(r, x, y) ==
    IF x = 0 THEN r = 0 ELSE abs(r) % abs(x) = 0 /\ TruncQuot(r, x) = y

\* execute has returned and has replaced the n top values by v, and has changed
\* nothing else
Replaces(n, v) ==
    /\ pc = "return"
    /\ ip = [call[4] EXCEPT !.stack = Replaced(n, v)]
    /\ output = <<>>

\* C15: with a non-zero top x and second value y, Divide replaces both by the
\* quotient of y by x truncated toward zero, for every y and every x # 0.
C15_DivideTruncates ==
    (Executed("Divide") /\ Len(Stack) >= 2 /\ X # 0) => Replaces(2, TruncQuot(Y, X))

\* C16: with a non-zero top x and second value y, Mod replaces both by
\* r = y - floor(y/x)*x, which is 0 or has the sign of x, and |r| < |x|, for
\* every y and every x # 0.
C16_ModFloored ==
    (Executed("Mod") /\ Len(Stack) >= 2 /\ X # 0) =>
        /\ Replaces(2, FlooredMod(Y, X))
        /\ LET r == ip.stack[Len(ip.stack)]
           IN  /\ r = 0 \/ (r < 0) = (X < 0)
               /\ abs(r) < abs(X)

\* C17: with top x and second y, Subtract leaves y - x, Greater leaves 1 if
\* y > x and 0 if not, Add leaves x + y and Multiply leaves x * y; each takes
\* the two operands away and pushes the one result.
C17_BinaryOperands ==
    (pc # "call" /\ call[1] = "execute" /\ Len(Stack) >= 2) =>
        /\ Cmd = "Subtract" => Replaces(2, Y - X)
        /\ Cmd = "Greater" => Replaces(2, IF Y > X THEN 1 ELSE 0)
        /\ Cmd = "Add" => Replaces(2, X + Y)
        /\ Cmd = "Multiply" =>
              /\ Replaces(2, ip.stack[Len(ip.stack)])
              /\ IsProduct(ip.stack[Len(ip.stack)], X, Y)

\* the argument of the two calls of Roll: the stack under the operands, the
\* depth and the number of rolls
S == call[2]

Depth == call[3]

NumRoll == call[4]

Rolled == pc # "call" /\ call[1] = "roll"

\* one roll to depth d: the top value goes to the d-th place from the top and
\* the values above that place rise by one
SingleRoll(stack, d) ==
    SubSeq(stack, 1, Len(stack) - d) \o <<stack[Len(stack)]>>
        \o SubSeq(stack, Len(stack) - d + 1, Len(stack) - 1)

RECURSIVE RollTimes(_, _, _)
RollTimes(stack, d, n) ==
    IF n = 0 THEN stack ELSE RollTimes(SingleRoll(stack, d), d, n - 1)

\* num_roll rolls to depth d, the number taken modulo d (floored)
RollSpec(stack, d, k) == IF d = 0 THEN stack ELSE RollTimes(stack, d, k % d)

\* C18: with depth and num_roll on top and 0 <= depth <= the number of values
\* under them, Roll pops both and leaves the stack that (num_roll mod depth)
\* single rolls to that depth give, for every num_roll; the values below the
\* depth keep their place.
C18_RollRotates ==
    (Rolled /\ 0 <= Depth /\ Depth <= Len(S)) =>
        /\ pc # PanicInCommand
        /\ ret = Some(RollSpec(S, Depth, NumRoll))

C20_RollDepth ==
    Rolled =>
        /\ (Depth < 0 \/ Depth > Len(S)) =>
              (pc # PanicInCommand /\ ret = Some(S \o <<Depth, NumRoll>>))
        /\ Depth = Len(S) =>
              (pc # PanicInCommand /\ ret = Some(RollSpec(S, Depth, NumRoll)))
        /\ (0 <= Depth /\ Depth <= Len(S) /\ (Depth <= 1 \/ NumRoll = 0)) =>
              (pc # PanicInCommand /\ ret = Some(S))

RECURSIVE DecimalOf(_)
\* the decimal digits of a natural number, most significant first
DecimalOf(n) == IF n <= 9 THEN <<48 + n>> ELSE DecimalOf(n \div 10) \o <<48 + (n % 10)>>

\* the decimal representation of an integer
Decimal(n) == IF n >= 0 THEN DecimalOf(n) ELSE <<45>> \o DecimalOf(0 - n)

\* the UTF-8 encoding of a scalar value: 0xxxxxxx, 110xxxxx 10xxxxxx,
\* 1110xxxx 10xxxxxx 10xxxxxx or 11110xxx 10xxxxxx 10xxxxxx 10xxxxxx
Utf8Of(x) ==
    LET Cont(k) == 128 + ((x \div (64 ^ k)) % 64)
    IN  CASE x <= 127 -> <<x>>
          [] 128 <= x /\ x <= 2047 -> <<192 + (x \div 64), Cont(0)>>
          [] 2048 <= x /\ x <= 65535 -> <<224 + (x \div 4096), Cont(1), Cont(0)>>
          [] x >= 65536 -> <<240 + (x \div 262144), Cont(2), Cont(1), Cont(0)>>

\* the command of the step about to be taken, "none" when the try is blocked,
\* slides into White or the state is not a try
StepCommand ==
    IF pc = "try" /\ ~Blocked(Target(ip.cur, ip.dp, ip.cc))
                  /\ At(Target(ip.cur, ip.dp, ip.cc)) \in Colored
    THEN TableCommand(At(ip.cur), At(Target(ip.cur, ip.dp, ip.cc)))
    ELSE "none"

\* the piece a successful output command writes, <<>> for every other step
OutputPiece(command, stack) ==
    IF stack = <<>> THEN <<>>
    ELSE IF command = "OutNumber" THEN Decimal(stack[Len(stack)]) \o <<10>>
    ELSE IF command = "OutChar" /\ IsScalar(stack[Len(stack)]) THEN Utf8Of(stack[Len(stack)])
    ELSE <<>>

\* C21: the output only grows; a step appends the decimal representation and
\* a newline of the value an OutNumber pops, the UTF-8 encoding of the scalar
\* value an OutChar pops, or the message of the iteration cap when the cap
\* halts the run; the piece is appended in the step that pops its value and
\* every other step leaves the output alone.
C21_OutputPieces ==
    [][IF /\ max_iter # None /\ num_iter = max_iter[1]
          /\ pc = "white" \/ (pc = "loop" /\ At(ip.cur) \in Colored)
       THEN output' = output \o MaxIterMessage
       ELSE /\ output' = output \o OutputPiece(StepCommand, ip.stack)
            /\ OutputPiece(StepCommand, ip.stack) # <<>> =>
                  ip'.stack = SubSeq(ip.stack, 1, Len(ip.stack) - 1)
      ]_vars

\* a run that read the char '1' and wrote it with OutChar
C21_Witness ==
    /\ Len(executed) >= 2
    /\ executed[1].command = "InChar"
    /\ executed[2].command = "OutChar"
    /\ output = <<49>>

RECURSIVE Turns(_, _)
\* dp after k quarter turns clockwise
Turns(dp, k) == IF k = 0 THEN dp ELSE Turns(Clockwise(dp), k - 1)

\* C22: Pointer pops the top value n and turns DP n mod 4 quarter turns
\* clockwise, for every n of the type, negative ones included;
\* rotate_clockwise_by(n) is n mod 4 applications of turn_right, always one of
\* the four directions, and rotate_clockwise_by(-n) undoes it.
C22_PointerRotates ==
    (Executed("Pointer") /\ Stack # <<>>) =>
        /\ pc = "return"
        /\ ip = [call[4] EXCEPT !.stack = SubSeq(Stack, 1, Len(Stack) - 1),
                                !.dp = Turns(call[4].dp, X % 4)]
        /\ ip.dp \in DP
        /\ X = 0 - 1 /\ call[4].dp = "Right" => ip.dp = "Up"
        /\ X # ISIZE_MIN => rotate_clockwise_by(ip.dp, 0 - X) = call[4].dp

\* |n| is odd
Odd(n) == (IF n < 0 THEN 0 - n ELSE n) % 2 = 1

\* C23: Switch pops the top value n and flips CC exactly when |n| is odd, for
\* every n of the type (-1 flips, every even n leaves CC as it is); flipping
\* CC twice gives CC back.
C23_SwitchFlips ==
    (Executed("Switch") /\ Stack # <<>>) =>
        /\ pc = "return"
        /\ ip = [call[4] EXCEPT !.stack = SubSeq(Stack, 1, Len(Stack) - 1),
                                !.cc = IF Odd(X) THEN Other(call[4].cc) ELSE call[4].cc]
        /\ flip(flip(call[4].cc)) = call[4].cc

\* ASCII whitespace: tab, line feed, form feed, carriage return, space
IsWhitespace(b) == b \in {9, 10, 12, 13, 32}

RECURSIVE SkipWhitespace(_)
\* a text without its leading whitespace
SkipWhitespace(t) ==
    IF t # <<>> /\ IsWhitespace(t[1]) THEN SkipWhitespace(Tail(t)) ELSE t

RECURSIVE TokenLen(_)
\* the number of leading bytes of t that are not whitespace
TokenLen(t) == IF t = <<>> \/ IsWhitespace(t[1]) THEN 0 ELSE 1 + TokenLen(Tail(t))

RECURSIVE Tokens(_)
\* the whitespace-delimited tokens of a text, in order
Tokens(t) ==
    LET r == SkipWhitespace(t)
    IN  IF r = <<>> THEN <<>>
        ELSE <<SubSeq(r, 1, TokenLen(r))>> \o Tokens(SubSeq(r, TokenLen(r) + 1, Len(r)))

\* the digits of a token that may start with one sign
Digits(tok) == IF tok # <<>> /\ tok[1] \in {43, 45} THEN Tail(tok) ELSE tok

RECURSIVE Magnitude(_)
\* the number a run of decimal digits denotes
Magnitude(ds) ==
    IF ds = <<>> THEN 0
    ELSE 10 * Magnitude(SubSeq(ds, 1, Len(ds) - 1)) + (ds[Len(ds)] - 48)

IntValue(tok) == IF tok[1] = 45 THEN 0 - Magnitude(Digits(tok)) ELSE Magnitude(Digits(tok))

\* the token is a signed decimal integer of the type
IsInteger(tok) ==
    /\ Digits(tok) # <<>>
    /\ \A k \in 1..Len(Digits(tok)) : Digits(tok)[k] \in 48..57
    /\ ISIZE_MIN <= IntValue(tok) /\ IntValue(tok) <= ISIZE_MAX

\* the text the reader has not consumed
Unread == ip.stdin.stdin

\* the step taken executes the reading command
Reads(command) ==
    /\ pc = "stdin"
    /\ Len(executed') = Len(executed) + 1
    /\ executed'[Len(executed')].command = command

\* the commands executed so far
Commands_executed == [k \in 1..Len(executed) |-> executed[k].command]

\* C24: an InNumber on a reader that has not met the end of input takes the
\* first whitespace-delimited token: a signed decimal integer is pushed, any
\* other token leaves the stack as it is, and in both cases the token is
\* gone, so that the tokens left are the following ones ("-100 abc 100"
\* pushes -100, then nothing, then 100); with no token left nothing is pushed.
C24_InNumberToken ==
    /\ [][(Reads("InNumber") /\ ~ip.stdin.is_eof) =>
            /\ pc' = "stdin"
            /\ IF Tokens(Unread) = <<>>
               THEN ip'.stack = ip.stack
               ELSE /\ ip'.stack = IF IsInteger(Tokens(Unread)[1])
                                   THEN Append(ip.stack, IntValue(Tokens(Unread)[1]))
                                   ELSE ip.stack
                    /\ Tokens(ip'.stdin.stdin) = Tail(Tokens(Unread))
         ]_vars
    /\ []((/\ input = <<45, 49, 48, 48, 32, 97, 98, 99, 32, 49, 48, 48>>
           /\ Commands_executed = <<"InNumber", "InNumber", "InNumber">>) =>
              ip.stack = <<0 - 100, 100>>)

\* "-100 abc 100" after two InNumber: -100 was pushed, abc was dropped
C24_Witness ==
    /\ input = <<45, 49, 48, 48, 32, 97, 98, 99, 32, 49, 48, 48>>
    /\ Commands_executed = <<"InNumber", "InNumber">>
    /\ ip.stack = <<0 - 100>>
    /\ Unread = <<49, 48, 48>>

\* the number of bytes of the UTF-8 sequence that starts with byte b
SequenceLen(b) == IF b <= 127 THEN 1 ELSE IF b <= 223 THEN 2 ELSE IF b <= 239 THEN 3 ELSE 4

\* the code point of the UTF-8 sequence at the start of t
CodePoint(t) ==
    LET Low(k) == t[k] - 128
    IN  CASE SequenceLen(t[1]) = 1 -> t[1]
          [] SequenceLen(t[1]) = 2 -> (t[1] - 192) * 64 + Low(2)
          [] SequenceLen(t[1]) = 3 -> (t[1] - 224) * 4096 + Low(2) * 64 + Low(3)
          [] SequenceLen(t[1]) = 4 ->
                (t[1] - 240) * 262144 + Low(2) * 4096 + Low(3) * 64 + Low(4)

\* C25: an InChar on a reader that has not met the end of input skips
\* whitespace and takes exactly one code point, which is pushed; the bytes
\* after it stay unread, so reads of both kinds see one stream: on "a20"
\* InChar pushes 'a' and InNumber then pushes 20, on "-1" two InChar push '-'
\* and '1'; with only whitespace left nothing is pushed.
C25_InCharOneCodePoint ==
    /\ [][(Reads("InChar") /\ ~ip.stdin.is_eof) =>
            /\ pc' = "stdin"
            /\ IF SkipWhitespace(Unread) = <<>>
               THEN ip'.stack = ip.stack
               ELSE /\ ip'.stack = Append(ip.stack, CodePoint(SkipWhitespace(Unread)))
                    /\ ip'.stdin.stdin =
                          SubSeq(SkipWhitespace(Unread),
                                 SequenceLen(SkipWhitespace(Unread)[1]) + 1,
                                 Len(SkipWhitespace(Unread)))
         ]_vars
    /\ []((input = <<97, 50, 48>> /\ Commands_executed = <<"InChar", "InNumber">>) =>
              ip.stack = <<97, 20>>)
    /\ []((input = <<45, 49>> /\ Commands_executed = <<"InChar", "InChar">>) =>
              ip.stack = <<45, 49>>)

\* " he llo" after three InChar: h, e and l were pushed over the whitespace
\* before h and l, and "lo" is still unread
C25_Witness ==
    /\ input = <<32, 104, 101, 32, 108, 108, 111>>
    /\ Commands_executed = <<"InChar", "InChar", "InChar">>
    /\ ip.stack = <<104, 101, 108>>
    /\ Unread = <<108, 111>>

\* the read of the step taken finds the end of input: InChar finds nothing but
\* whitespace, InNumber finds no token or a token that ends the text
MeetsEnd ==
    \/ SkipWhitespace(Unread) = <<>>
    \/ Reads("InNumber") /\ TokenLen(SkipWhitespace(Unread)) = Len(SkipWhitespace(Unread))

\* C26: the reader has reached the end of input exactly when one of its reads
\* has found it; from then on the reader stays there whatever the stream
\* delivers, and every InChar and InNumber, in any order, leaves the stack
\* and the stream as they are.
C26_StickyEof ==
    /\ [][((Reads("InChar") \/ Reads("InNumber")) /\ ~ip.stdin.is_eof) =>
              (ip'.stdin.is_eof <=> MeetsEnd)]_vars
    /\ [][ip.stdin.is_eof =>
            /\ ip'.stdin.is_eof
            /\ (Reads("InChar") \/ Reads("InNumber")) =>
                  /\ pc' = "stdin"
                  /\ ip'.stack = ip.stack
                  /\ ip'.stdin.stdin = Unread
         ]_vars

\* "-1": two InChar took both chars, the third read met the end of input,
\* then "7" arrived and the fourth read left it unread
C26_Witness ==
    /\ input = <<45, 49>>
    /\ Len(executed) = MaxReads
    /\ ip.stack = <<45, 49>>
    /\ ip.stdin.is_eof
    /\ Unread = <<55>>

\* the coordinates of B farthest in direction dp
Extreme(B, dp) ==
    CASE dp = "Right" -> {c \in B : \A b \in B : c[2] >= b[2]}
      [] dp = "Down" -> {c \in B : \A b \in B : c[1] >= b[1]}
      [] dp = "Left" -> {c \in B : \A b \in B : c[2] <= b[2]}
      [] dp = "Up" -> {c \in B : \A b \in B : c[1] <= b[1]}

\* c is the coordinate the table of corners prescribes among the set E
TieBreak(c, E, dp, cc) ==
    CASE dp = "Right" /\ cc = "Left" -> \A b \in E : c[1] <= b[1]
      [] dp = "Right" /\ cc = "Right" -> \A b \in E : c[1] >= b[1]
      [] dp = "Down" /\ cc = "Left" -> \A b \in E : c[2] >= b[2]
      [] dp = "Down" /\ cc = "Right" -> \A b \in E : c[2] <= b[2]
      [] dp = "Left" /\ cc = "Left" -> \A b \in E : c[1] >= b[1]
      [] dp = "Left" /\ cc = "Right" -> \A b \in E : c[1] <= b[1]
      [] dp = "Up" /\ cc = "Left" -> \A b \in E : c[2] <= b[2]
      [] dp = "Up" /\ cc = "Right" -> \A b \in E : c[2] >= b[2]

\* C27: for a block built from a non-empty set of coordinates and every DP
\* and CC, the corner is a coordinate of the set on its extreme row or column
\* in direction DP, the one the table of tie-breaks prescribes there, and the
\* size of the block is the number of coordinates.
C27_Corner ==
    /\ pc = "built" => ret[1].size = Cardinality(call[2])
    /\ pc = "corner" =>
          /\ ret[4] \in call[2]
          /\ ret[4] \in Extreme(call[2], ret[2])
          /\ TieBreak(ret[4], Extreme(call[2], ret[2]), ret[2], ret[3])
          /\ ret[1].size = Cardinality(call[2])

\* a T on its side: the left column holds three coordinates, and the corner
\* for Left and Left is the one of the largest row
C27_Witness ==
    /\ pc = "corner"
    /\ call[2] = {<<0, 0>>, <<1, 0>>, <<1, 1>>, <<2, 0>>}
    /\ ret[2] = "Left"
    /\ ret[3] = "Left"
    /\ ret[4] = <<2, 0>>

\* block is the block of the set B of coordinates: its size and its eight
\* corners are those of B
IsBlockOf(block, B) ==
    /\ block.size = Cardinality(B)
    /\ \A dp \in DP, cc \in CC :
          /\ get_corner_index(block, dp, cc) \in Extreme(B, dp)
          /\ TieBreak(get_corner_index(block, dp, cc), Extreme(B, dp), dp, cc)

\* a and b touch at a corner only
Diagonal(a, b) ==
    (a[1] = b[1] + 1 \/ b[1] = a[1] + 1) /\ (a[2] = b[2] + 1 \/ b[2] = a[2] + 1)

\* C28: the block index maps every coordinate of the grid to one block, the
\* block of the maximal 4-connected region of one codel that holds the
\* coordinate, of size at least 1 (no placeholder is left); two coordinates
\* have the same block exactly when a path of horizontally or vertically
\* adjacent cells of one codel joins them, so cells that touch only
\* diagonally and have no such path have different blocks.
C28_BlockIndex ==
    pc = "indexed" =>
        /\ DOMAIN img.block_map = Grid
        /\ \A a \in Grid :
              /\ IsBlockOf(img.block_map[a], BlockOf(a))
              /\ img.block_map[a].size >= 1
              /\ img.block_map[a] # Block_default
        /\ \A a, b \in Grid :
              /\ img.block_map[a] = img.block_map[b] <=> b \in BlockOf(a)
              /\ (Diagonal(a, b) /\ At(a) = At(b)
                    /\ \A c \in Grid : (Adjacent(a, c) /\ Adjacent(c, b)) => At(c) # At(a)
                    /\ Cardinality(BlockOf(a)) = 1)
                 => img.block_map[a] # img.block_map[b]

\* two Red codels that touch at a corner are two blocks of size 1; the White
\* codel between them is a block of its own and the other three are one
C28_Witness ==
    /\ pc = "indexed"
    /\ img.m = << <<"Red", "White">>,
                  <<"White", "Red">>,
                  <<"White", "White">> >>
    /\ img.block_map[<<0, 0>>].size = 1
    /\ img.block_map[<<1, 1>>].size = 1
    /\ img.block_map[<<0, 0>>] # img.block_map[<<1, 1>>]
    /\ img.block_map[<<0, 1>>].size = 1
    /\ img.block_map[<<1, 0>>] = img.block_map[<<2, 1>>]
    /\ img.block_map[<<1, 0>>].size = 3

\* the pixels of the call, and their height and width
Pixels == call[2]

PH == Len(Pixels)

PW == Len(Pixels[1])

\* t divides both the height and the width of the pixels
CommonDivisor(t) == PH % t = 0 /\ PW % t = 0

\* every aligned t x t tile of the pixels holds one RGB value
Uniform(t) ==
    \A y \in 1..PH, x \in 1..PW :
        Pixels[y][x] = Pixels[((y - 1) \div t) * t + 1][((x - 1) \div t) * t + 1]

\* Image::new was applied to a grid of pixels
Prepared == call[1] = "image" /\ pc # "call"

\* the codel size detected
Size == ret.codel_size[1]

\* C29: the codel size detected is the largest s, at most the smaller of the
\* pixel height and width, that divides both and whose aligned s x s tiles all
\* hold one RGB value: no larger common divisor passes the tile test; the
\* image built has one codel per tile.
C29_CodelSize ==
    Prepared =>
        /\ ret.codel_size # None
        /\ Size \in 1..(IF PH <= PW THEN PH ELSE PW)
        /\ CommonDivisor(Size)
        /\ Uniform(Size)
        /\ \A t \in (Size + 1)..(IF PH <= PW THEN PH ELSE PW) :
              ~(CommonDivisor(t) /\ Uniform(t))
        /\ pc = "image" => (H = PH \div Size /\ W = PW \div Size)

\* 4 x 4 pixels of four 2 x 2 tiles: size 4 fails the tile test, size 3 is
\* no divisor, size 2 is detected and the image has 2 x 2 codels
C29_Witness ==
    /\ Prepared
    /\ Pixels = << <<(<<255, 0, 0>>), <<255, 0, 0>>, <<255, 255, 255>>, <<255, 255, 255>> >>,
                   <<(<<255, 0, 0>>), <<255, 0, 0>>, <<255, 255, 255>>, <<255, 255, 255>> >>,
                   <<(<<255, 0, 0>>), <<255, 0, 0>>, <<255, 0, 0>>, <<255, 0, 0>> >>,
                   <<(<<255, 0, 0>>), <<255, 0, 0>>, <<255, 0, 0>>, <<255, 0, 0>> >> >>
    /\ Size = 2
    /\ pc = "image"
    /\ img.m = << <<"Red", "White">>, <<"Red", "Red">> >>

\* the component of a colour: hues 0..5 are Red, Yellow, Green, Cyan, Blue,
\* Magenta; a component the hue has is 255, or 192 when Dark; one it lacks is
\* 0, or 192 when Light
HueHas(h) ==
    << <<TRUE, FALSE, FALSE>>, <<TRUE, TRUE, FALSE>>, <<FALSE, TRUE, FALSE>>,
       <<FALSE, TRUE, TRUE>>, <<FALSE, FALSE, TRUE>>, <<TRUE, FALSE, TRUE>> >>[h + 1]

\* the RGB value of a codel
Rgb(c) ==
    IF c = "White" THEN <<255, 255, 255>>
    ELSE IF c = "Black" THEN <<0, 0, 0>>
    ELSE [n \in 1..3 |->
            IF HueHas(HueOf(c))[n]
            THEN (IF LightnessOf(c) = 2 THEN 192 ELSE 255)
            ELSE (IF LightnessOf(c) = 0 THEN 192 ELSE 0)]

\* the RGB value of every codel, and the 20 values
RgbTable == [c \in Codel |-> Rgb(c)]

PaletteRgb == {RgbTable[c] : c \in Codel}

\* the coordinates of the codels whose pixel is none of the 20 RGB values
Misses ==
    {c \in (0..(PH \div Size - 1)) \X (0..(PW \div Size - 1)) :
        Pixels[c[1] * Size + 1][c[2] * Size + 1] \notin PaletteRgb}

\* C30: Codel::new gives each of the 20 codels back from its RGB value, whose
\* components are in {0, 192, 255}; the 20 RGB values differ from one
\* another; every other pixel gives none, and an image with such a pixel is
\* refused with the coordinate of a codel that has one, while an image
\* without is built with the codel of every pixel.
C30_PaletteRoundTrip ==
    /\ pc = "codel" =>
          /\ \A c \in Codel : Pixels = RgbTable[c] => ret = Some(Some(c))
          /\ Pixels \notin PaletteRgb => ret = Some(None)
          /\ \A c \in Codel : \A n \in 1..3 : RgbTable[c][n] \in {0, 192, 255}
          /\ Cardinality(PaletteRgb) = 20
    /\ Prepared =>
          IF Misses = {}
          THEN /\ pc = "image"
               /\ \A c \in Grid : RgbTable[At(c)] = Pixels[c[1] * Size + 1][c[2] * Size + 1]
          ELSE /\ pc = "error"
               /\ \E c \in Misses : ret.err = <<"invalid color at", c>>

\* 2 x 4 pixels of two tiles, the second of a value that is no codel: the
\* image is refused with the codel coordinate (0, 1), not a pixel coordinate
C30_Witness ==
    /\ Prepared
    /\ Pixels = << <<(<<255, 0, 0>>), <<255, 0, 0>>, <<255, 0, 1>>, <<255, 0, 1>> >>,
                   <<(<<255, 0, 0>>), <<255, 0, 0>>, <<255, 0, 1>>, <<255, 0, 1>> >> >>
    /\ Size = 2
    /\ pc = "error"
    /\ ret.err = <<"invalid color at", <<0, 1>> >>

\* C31: for all colored codels a and b the hue step from a to b is in 0..5
\* and the lightness step in 0..2; the steps from a to b and from b to a add
\* up to 0 or 6 (hue) and 0 or 3 (lightness); the hue step is (hue(b) -
\* hue(a)) mod 6 in the order Red, Yellow, Green, Cyan, Blue, Magenta and the
\* lightness step (lightness(b) - lightness(a)) mod 3 in the order Light,
\* Normal, Dark.
C31_Deltas ==
    (pc = "return" /\ call[1] = "Command_new") =>
        /\ get_hue_difference(call[2], call[3]) \in 0..5
        /\ get_lightness_difference(call[2], call[3]) \in 0..2
        /\ get_hue_difference(call[2], call[3]) + get_hue_difference(call[3], call[2])
              \in {0, 6}
        /\ get_lightness_difference(call[2], call[3])
              + get_lightness_difference(call[3], call[2]) \in {0, 3}
        /\ get_hue_difference(call[2], call[3]) = (HueOf(call[3]) - HueOf(call[2])) % 6
        /\ get_lightness_difference(call[2], call[3])
              = (LightnessOf(call[3]) - LightnessOf(call[2])) % 3

\* from Blue to LightGreen the hue step wraps: 4 one way and 2 the other; the
\* lightness step is 2 one way and 1 the other
C31_Witness ==
    /\ pc = "return"
    /\ call = <<"Command_new", "Blue", "LightGreen">>
    /\ get_hue_difference("Blue", "LightGreen") = 4
    /\ get_hue_difference("LightGreen", "Blue") = 2
    /\ get_lightness_difference("Blue", "LightGreen") = 2
    /\ get_lightness_difference("LightGreen", "Blue") = 1

C33_Downsampling ==
    Prepared =>
        \E scaled \in {pixels_scaled(Pixels, Size)} :
            /\ Len(scaled) = PH \div Size
            /\ \A a \in 1..Len(scaled) : Len(scaled[a]) = PW \div Size
            /\ \A a \in 0..(PH \div Size - 1), b \in 0..(PW \div Size - 1) :
                  scaled[a + 1][b + 1] = Pixels[a * Size + 1][b * Size + 1]
            /\ \A y \in 0..(PH - 1), x \in 0..(PW - 1) :
                  Pixels[y + 1][x + 1] = scaled[(y \div Size) + 1][(x \div Size) + 1]
            /\ pc = "image" =>
                  /\ H = Len(scaled)
                  /\ W = Len(scaled[1])
                  /\ \A c \in Grid : Some(At(c)) = Codel_new(scaled[c[1] + 1][c[2] + 1])

\* 2 x 4 pixels of two 2 x 2 tiles become 1 x 2 codels
C33_Witness ==
    /\ Prepared
    /\ Pixels = << <<(<<255, 255, 255>>), <<255, 255, 255>>, <<255, 0, 0>>, <<255, 0, 0>> >>,
                   <<(<<255, 255, 255>>), <<255, 255, 255>>, <<255, 0, 0>>, <<255, 0, 0>> >> >>
    /\ Size = 2
    /\ pixels_scaled(Pixels, Size) = << <<(<<255, 255, 255>>), <<255, 0, 0>> >> >>
    /\ pc = "image"
    /\ img.m = << <<"White", "Red">> >>

\* C40: for every non-empty grid of pixels the detection of the codel size
\* succeeds with some s >= 1, because 1 divides both dimensions and every
\* 1 x 1 tile is uniform; Image::new never returns the error "failed to detect
\* the codel size".
C40_DetectionSucceeds ==
    Prepared =>
        /\ PH >= 1 /\ PW >= 1
        /\ CommonDivisor(1) /\ Uniform(1)
        /\ detect_codel_size(Pixels) # None
        /\ detect_codel_size(Pixels)[1] >= 1
        /\ ret.err # <<"failed to detect the codel size">>
        /\ pc = "error" => ret.err[1] = "invalid color at"

\* 3 x 2 pixels with no uniform tile above 1 x 1: the loop goes down from 2 to
\* 1 and the size 1 is returned
C40_Witness ==
    /\ Prepared
    /\ Pixels = << <<(<<255, 0, 0>>), <<255, 255, 255>> >>,
                   <<(<<255, 255, 255>>), <<255, 0, 0>> >>,
                   <<(<<255, 0, 0>>), <<255, 0, 0>> >> >>
    /\ ~Uniform(2)
    /\ detect_codel_size(Pixels) = Some(1)
    /\ pc = "image"
    /\ H = 3 /\ W = 2

\* C34: the visited set of the white regime belongs to one slide episode:
\* whenever the main loop finds the position on a White codel the regime is
\* entered with an empty set, whatever an earlier episode recorded; inside an
\* episode the set only grows by the current pair, and outside it is not
\* touched; so the first step of an episode never ends the run by repetition,
\* and a run ends by repetition only on a pair recorded in the same episode.
C34_EpisodeVisited ==
    [][/\ (pc = "loop" /\ At(ip.cur) = "White") => (pc' = "white" /\ visited' = {})
       /\ pc' = "white" => (pc = "white" \/ (pc = "loop" /\ At(ip.cur) = "White"))
       /\ (pc = "white" /\ pc' \in {"white", "loop"}) =>
             (<<ip.cur, ip.dp>> \notin visited /\ visited' = visited \cup {<<ip.cur, ip.dp>>})
       /\ (pc = "white" /\ visited = {} /\ ~at_max_iter) => pc' # Ok
       /\ (pc = "white" /\ pc' = Ok /\ ~at_max_iter) => <<ip.cur, ip.dp>> \in visited
       /\ pc \notin {"loop", "white"} => visited' = visited
      ]_vars

\* Red White Red: the slide from the left Red to the right one records
\* ((0, 1), Right), the slide back records ((0, 1), Left), and the third
\* episode meets ((0, 1), Right) again and goes on to the right Red
C34_Witness ==
    /\ img.m = << <<"Red", "White", "Red">> >>
    /\ max_iter = None
    /\ pc = "loop"
    /\ num_iter = 6
    /\ ip.cur = <<0, 2>>
    /\ ip.dp = "Right"
    /\ visited = {<< <<0, 1>>, "Right" >>}

\* C35: whenever run builds a command, the codel left and the codel entered
\* are both colored (neither White nor Black) and differ in hue or lightness:
\* the pair of steps is never (0, 0) and no unreachable!() of Command::new,
\* get_hue or get_lightness is reached.  The cell next to an exit corner in
\* direction DP never belongs to the current block, and a colored exit that
\* succeeds lands in another block.
C35_CommandsWellFormed ==
    [][/\ pc = "try" =>
             /\ At(ip.cur) \in Colored
             /\ \A dp \in DP, cc \in CC : Target(ip.cur, dp, cc) \notin BlockOf(ip.cur)
       /\ executed' # executed =>
             /\ pc = "try"
             /\ executed' = Append(executed, executed'[Len(executed')])
             /\ Target(ip.cur, ip.dp, ip.cc) \in Grid
             /\ At(Target(ip.cur, ip.dp, ip.cc)) \in Colored
             /\ At(Target(ip.cur, ip.dp, ip.cc)) # At(ip.cur)
             /\ <<(HueOf(At(Target(ip.cur, ip.dp, ip.cc))) - HueOf(At(ip.cur))) % 6,
                  (LightnessOf(At(Target(ip.cur, ip.dp, ip.cc))) - LightnessOf(At(ip.cur))) % 3>>
                   # <<0, 0>>
             /\ get_hue(At(ip.cur)) >= 0 /\ get_lightness(At(ip.cur)) >= 0
             /\ get_hue(At(Target(ip.cur, ip.dp, ip.cc))) >= 0
             /\ get_lightness(At(Target(ip.cur, ip.dp, ip.cc))) >= 0
             /\ executed'[Len(executed')].command \in Commands
             /\ executed'[Len(executed')].command
                   = Command_new(At(ip.cur), At(Target(ip.cur, ip.dp, ip.cc)))
             /\ pc' = "loop" =>
                   /\ ip'.cur = Target(ip.cur, ip.dp, ip.cc)
                   /\ BlockOf(ip'.cur) # BlockOf(ip.cur)
                   /\ ip'.cur \notin BlockOf(ip.cur)
      ]_vars

\* a command was built on leaving a block of two or more codels through an
\* exit corner that is not the position left, and run went on in the block
\* entered
C35_Witness ==
    /\ pc = "loop"
    /\ executed # <<>>
    /\ executed[Len(executed)].block_size >= 2
    /\ executed[Len(executed)].command \in Commands
    /\ At(ip.cur) \in Colored
    /\ At(executed[Len(executed)].from) \in Colored
    /\ ip.cur \notin BlockOf(executed[Len(executed)].from)
    /\ ~Adjacent(ip.cur, executed[Len(executed)].from)

\* the DP and CC a pass started with, from the registers at try k: the k
\* failed tries before it made (k + 1) div 2 flips and k div 2 turns
PassDP(dp, k) == Turns(dp, (4 - ((k \div 2) % 4)) % 4)

PassCC(cc, k) == IF Odd((k + 1) \div 2) THEN Other(cc) ELSE cc

\* the (DP, CC) that try j of a pass started with <<dp, cc>> tests
Tested(dp, cc, j) == <<Turns(dp, j \div 2), IF Odd((j + 1) \div 2) THEN Other(cc) ELSE cc>>

\* all eight exits of the block of c lead off the grid or into Black
NoExit(c) == \A dp \in DP, cc \in CC : Blocked(Target(c, dp, cc))

SlideStep ==
    pc = "white" =>
        \* one that does not end the run records a pair not recorded before
        /\ pc' \in {"white", "loop"} =>
              /\ <<ip.cur, ip.dp>> \notin visited
              /\ visited' = visited \cup {<<ip.cur, ip.dp>>}
              /\ Cardinality(visited') = Cardinality(visited) + 1
              /\ num_iter' = num_iter + 1
        \* a recorded pair ends the run
        /\ <<ip.cur, ip.dp>> \in visited => pc' = Ok
        /\ pc' \notin {"white", "loop"} => (pc' = Ok /\ visited' = visited)

\* C37: every slide episode ends, by reaching a colored codel or by ending
\* the run, after at most 4*H*W + 1 iterations of its loop: every iteration
\* that does not end the run records a (position, DP) pair not recorded before
\* in the episode, the pairs recorded are the iterations made and are pairs of
\* White cells and directions, at most 4*H*W, and an iteration on a recorded
\* pair ends the run.  (A run followed up to StepBound iterations may be cut
\* inside an episode.)
C37_SlideEnds ==
    /\ [][SlideStep]_vars
    /\ [](pc = "white" =>
            /\ visited \subseteq (Grid \X DP)
            /\ \A p \in visited : At(p[1]) = "White"
            /\ Cardinality(visited) <= 4 * H * W
            /\ Cardinality(visited) <= num_iter)
    /\ [](pc = "white" => <>(pc # "white" \/ num_iter = StepBound))

\* an episode on two White cells closed in by Black and the edge: six pairs
\* are recorded and the seventh iteration meets the first pair again
C37_Witness ==
    /\ pc = Ok
    /\ ~at_max_iter
    /\ At(ip.cur) = "White"
    /\ <<ip.cur, ip.dp>> \in visited
    /\ Cardinality(visited) = 6
    /\ num_iter = 8
    /\ Cardinality({p[1] : p \in visited}) = 2

\* the (position, DP) that follows p = <<position, DP>> in a slide, as a
\* function of p and the grid alone
SlideNext(p) ==
    IF Blocked(Step(p[1], p[2])) THEN <<p[1], Clockwise(p[2])>>
    ELSE <<Step(p[1], p[2]), p[2]>>

RECURSIVE SlideFrom(_, _)
\* p after k iterations of a slide that stays on White; <<>> once the slide
\* has left White
SlideFrom(p, k) ==
    IF k = 0 THEN p
    ELSE IF At(SlideNext(p)[1]) # "White" THEN <<>>
    ELSE SlideFrom(SlideNext(p), k - 1)

\* C38: detection of a loop in the white regime is sound: the (position, DP)
\* after an iteration is a function of the (position, DP) before it and of the
\* grid, whatever CC, the stack and the input are; every pair recorded in the
\* episode leads to the current pair along that function; so when the run
\* ends on a recorded pair, the slide from that pair comes back to it over
\* White cells only and would never have reached a colored codel.
C38_LoopDetectionSound ==
    /\ [][/\ (pc = "white" /\ pc' \in {"white", "loop"}) =>
                <<ip'.cur, ip'.dp>> = SlideNext(<<ip.cur, ip.dp>>)
          /\ (pc = "white" /\ pc' = Ok /\ ~at_max_iter) =>
                /\ <<ip.cur, ip.dp>> \in visited
                /\ \E k \in 1..Cardinality(visited) :
                      SlideFrom(<<ip.cur, ip.dp>>, k) = <<ip.cur, ip.dp>>
                /\ \A k \in 0..(4 * H * W) : SlideFrom(<<ip.cur, ip.dp>>, k) # <<>>
         ]_vars
    /\ [](pc = "white" =>
             \A p \in visited :
                 \E k \in 1..Cardinality(visited) : SlideFrom(p, k) = <<ip.cur, ip.dp>>)

\* a run with input left unread ended on a pair recorded six iterations
\* before: the slide from the pair comes back to it after six iterations and
\* not earlier
C38_Witness ==
    /\ pc = Ok
    /\ ~at_max_iter
    /\ At(ip.cur) = "White"
    /\ <<ip.cur, ip.dp>> \in visited
    /\ SlideFrom(<<ip.cur, ip.dp>>, 6) = <<ip.cur, ip.dp>>
    /\ \A k \in 1..5 : SlideFrom(<<ip.cur, ip.dp>>, k) # <<ip.cur, ip.dp>>
    /\ ip.stdin.stdin # <<>>

\* a call of execute has ended, by a return or by a panic
Called == call # <<>> /\ pc # "call" /\ call[1] = "execute"

\* C39: the frame of the engine.  Executing a command never changes the
\* position; of the commands only Pointer changes DP and only Switch changes
\* CC.  A blocked try of the colored regime and a blocked step of the white
\* regime change DP and CC only: the position, the stack, the input left and
\* the output stay.  The codel grid and the block index are never modified.
C39_Frame ==
    /\ [](Called =>
            /\ ip.cur = call[4].cur
            /\ ip.dp # call[4].dp => Cmd = "Pointer"
            /\ ip.cc # call[4].cc => Cmd = "Switch")
    /\ [][/\ img' = img
          \* a command executed by run: the position is moved by run, after
          \* execute has returned
          /\ (call = <<>> /\ executed' # executed) =>
                /\ ip'.dp # ip.dp => executed'[Len(executed')].command = "Pointer"
                /\ ip'.cc # ip.cc => executed'[Len(executed')].command = "Switch"
                /\ pc' # "loop" => ip'.cur = ip.cur
                /\ pc' = "loop" => ip'.cur = Target(ip.cur, ip.dp, ip.cc)
          /\ (call = <<>> /\ pc = "try" /\ Blocked(Target(ip.cur, ip.dp, ip.cc))) =>
                /\ ip' = [ip EXCEPT !.dp = ip'.dp, !.cc = ip'.cc]
                /\ output' = output
                /\ executed' = executed
                /\ <<ip'.dp, ip'.cc>> # <<ip.dp, ip.cc>>
          /\ (call = <<>> /\ pc = "white" /\ pc' = "white"
                 /\ Blocked(Step(ip.cur, ip.dp))) =>
                /\ ip' = [ip EXCEPT !.dp = ip'.dp, !.cc = ip'.cc]
                /\ output' = output
                /\ executed' = executed
                /\ <<ip'.dp, ip'.cc>> # <<ip.dp, ip.cc>>
         ]_vars

\* Switch on an odd value has flipped CC in a call of execute with DP = Up:
\* the position and DP are those of the call
C39_Witness ==
    /\ Called
    /\ Cmd = "Switch"
    /\ pc = "return"
    /\ call[4].dp = "Up"
    /\ ip.cc # call[4].cc
    /\ ip.dp = "Up"
    /\ ip.cur = call[4].cur
    /\ Len(ip.stack) = Len(Stack) - 1

====
